---- MODULE Spec2Model ----
(***************************************************************************)
(* A model of the spreadsheet engine of RustLab290: the grid of CellData,  *)
(* the formula parser (src/src/parser.rs) and the backend operations       *)
(* (src/src/backend.rs): update_graph, check_circular_dependency,          *)
(* set_dirty_parents, update_dependents, evaluate_expression and           *)
(* set_cell_value.                                                         *)
(*                                                                         *)
(* Text is a sequence of one-character strings.  Cells are records         *)
(* [row, col] with 0-based coordinates, as struct Cell.  A dependents list *)
(* is a sequence (a Vec in the source: order and repetition are kept).     *)
(*                                                                         *)
(* Integer arithmetic is i32.  An operation whose mathematical result      *)
(* leaves the i32 range panics in a build with overflow checks and wraps   *)
(* in a build without them; every evaluation therefore carries two flags:  *)
(* ovf (an overflow happened: the call either panics or goes on with the   *)
(* wrapped value) and trap (a panic in every build, as i32::MIN / -1).     *)
(***************************************************************************)
EXTENDS Integers, Sequences, FiniteSets, Bags, TLC

\* ------------------------------------------------------------------ bounds

\* The grid of the backend under check is MaxRows x MaxCols.
MaxRows == 2

MaxCols == 2

\* The number of set_cell_value calls a behaviour makes on a fresh backend.
MaxCalls == 3

\* The number of set_cell_value calls a behaviour makes after a script.
MaxScriptCalls == 2

\* ------------------------------------------------------------- i32 helpers

I32Max == 2147483647

I32Min == (-I32Max) - 1

AddOverflows(a, b) ==
    \/ b > 0 /\ a > I32Max - b
    \/ b < 0 /\ a < I32Min - b

\* a + b modulo 2^32, as a two's-complement i32.
WrapAdd(a, b) ==
    IF b > 0 /\ a > I32Max - b THEN ((a - I32Max) - 1) + ((b - I32Max) - 1)
    ELSE IF b < 0 /\ a < I32Min - b THEN ((a + I32Max) + 1) + ((b + I32Max) + 1)
    ELSE a + b

SubOverflows(a, b) ==
    \/ b < 0 /\ a > I32Max + b
    \/ b > 0 /\ a < I32Min + b

\* a - b modulo 2^32, as a two's-complement i32.
WrapSub(a, b) ==
    IF b < 0 /\ a > I32Max + b THEN ((a - I32Max) - 1) - ((b + I32Max) + 1)
    ELSE IF b > 0 /\ a < I32Min + b THEN ((a + I32Max) + 1) - ((b - I32Max) - 1)
    ELSE a - b

\* i32::abs: overflows on i32::MIN, where the wrapped result is i32::MIN.
WrapAbs(a) == IF a = I32Min THEN I32Min ELSE IF a < 0 THEN -a ELSE a

\* Rust's integer division, truncating toward zero; b # 0 and not (MIN / -1).
TruncDiv(a, b) ==
    IF b = I32Min THEN (IF a = I32Min THEN 1 ELSE 0)
    ELSE IF b = 1 THEN a
    ELSE LET mb == IF b < 0 THEN -b ELSE b IN
         IF a = I32Min
         THEN LET q == (I32Max \div mb) + (IF I32Max % mb = mb - 1 THEN 1 ELSE 0)
              IN  IF b > 0 THEN -q ELSE q
         ELSE LET ma == IF a < 0 THEN -a ELSE a
                  q  == ma \div mb
              IN  IF (a < 0) = (b < 0) THEN q ELSE -q

\* value * 10 + d modulo 2^32 (the digit loop of parse_binary_op).
WrapMul10Add(v, d) ==
    LET w2  == WrapAdd(v, v)
        w4  == WrapAdd(w2, w2)
        w8  == WrapAdd(w4, w4)
        w10 == WrapAdd(w8, w2)
    IN  WrapAdd(w10, d)

Mul10AddOverflows(v, d) ==
    \/ v > (I32Max - d) \div 10
    \/ v < 0

\* Whether the mathematical product a * b leaves the i32 range.
MulOverflows(a, b) ==
    IF a = 0 \/ b = 0 THEN FALSE
    ELSE IF a = I32Min THEN b # 1
    ELSE IF b = I32Min THEN a # 1
    ELSE LET ma == IF a < 0 THEN -a ELSE a
             mb == IF b < 0 THEN -b ELSE b
         IN  IF (a < 0) = (b < 0)
             THEN ma > I32Max \div mb
             ELSE IF I32Max % mb = mb - 1 THEN ma - 1 > I32Max \div mb
             ELSE ma > I32Max \div mb

\* a * n modulo 2^32 for n >= 0, by doubling.
RECURSIVE WrapMulNat(_, _)
WrapMulNat(a, n) ==
    IF n = 0 THEN 0
    ELSE LET h == WrapMulNat(WrapAdd(a, a), n \div 2)
         IN  IF n % 2 = 1 THEN WrapAdd(h, a) ELSE h

\* a * b modulo 2^32, as a two's-complement i32.
WrapMul(a, b) ==
    IF ~MulOverflows(a, b) THEN a * b
    ELSE IF b = I32Min THEN (IF a % 2 = 0 THEN 0 ELSE I32Min)
    ELSE IF b < 0 THEN WrapSub(0, WrapMulNat(a, -b))
    ELSE WrapMulNat(a, b)


\* -------------------------------------------------------------------- text

UpperSeq ==
    << "A", "B", "C", "D", "E", "F", "G", "H", "I", "J", "K", "L", "M",
       "N", "O", "P", "Q", "R", "S", "T", "U", "V", "W", "X", "Y", "Z" >>

DigitSeq == << "0", "1", "2", "3", "4", "5", "6", "7", "8", "9" >>

Upper == { UpperSeq[i] : i \in 1..26 }

Digit == { DigitSeq[i] : i \in 1..10 }

\* chars[i] as usize - 'A' as usize + 1
LetterVal(c) == CHOOSE i \in 1..26 : UpperSeq[i] = c

\* c as i32 - '0' as i32
DigitVal(c) == (CHOOSE i \in 1..10 : DigitSeq[i] = c) - 1

\* str::find: the 1-based index of the first ch in s, 0 when there is none.
Find(s, ch) ==
    IF \E i \in 1..Len(s) : s[i] = ch
    THEN CHOOSE i \in 1..Len(s) : s[i] = ch /\ \A j \in 1..(i - 1) : s[j] # ch
    ELSE 0

StartsWith(s, p) == Len(s) >= Len(p) /\ SubSeq(s, 1, Len(p)) = p

\* s[n..]: the text after its first n characters.
Drop(s, n) == SubSeq(s, n + 1, Len(s))

\* ---------------------------------------------------------- formula model

MkCell(r, c) == [row |-> r, col |-> c]

OperandCell(cell) == [type_ |-> "Cell", cell |-> cell]

OperandInt(v) == [type_ |-> "Int", value |-> v]

new_constant(v) == [type_ |-> "Constant", data |-> [tag |-> "Value", value |-> v]]

new_binary_op(t, first, second) ==
    [type_ |-> t, data |-> [tag |-> "BinaryOp", first |-> first, second |-> second]]

new_range_function(t, tl, br) ==
    [type_ |-> t, data |-> [tag |-> "RangeFunction", top_left |-> tl, bottom_right |-> br]]

new_sleep(v) ==
    [type_ |-> "Sleep", data |-> [tag |-> "SleepValue", operand |-> OperandInt(v)]]

new_sleep_cell(cell) ==
    [type_ |-> "Sleep", data |-> [tag |-> "SleepValue", operand |-> OperandCell(cell)]]

\* ------------------------------------------------------------------ parser

\* The value of a string of digits, while it fits i32: [ok, v].
DigitsValue(s) ==
    LET f[i \in 0..Len(s)] ==
            IF i = 0 THEN [ok |-> TRUE, v |-> 0]
            ELSE LET p == f[i - 1]
                     d == DigitVal(s[i])
                 IN  IF p.ok /\ p.v <= (I32Max - d) \div 10
                     THEN [ok |-> TRUE, v |-> (p.v * 10) + d]
                     ELSE [ok |-> FALSE, v |-> 0]
    IN  f[Len(s)]

\* str::parse::<i32>(): an optional sign, then digits only; Err on overflow.
ParseI32(s) ==
    LET signed == s # << >> /\ s[1] \in {"-", "+"}
        body   == IF signed THEN Drop(s, 1) ELSE s
        allDig == body # << >> /\ \A i \in 1..Len(body) : body[i] \in Digit
        mag    == DigitsValue(body)
    IN  IF ~allDig THEN [ok |-> FALSE, value |-> 0]
        ELSE IF mag.ok
             THEN [ok |-> TRUE, value |-> IF signed /\ s[1] = "-" THEN -mag.v ELSE mag.v]
        ELSE IF signed /\ s[1] = "-"
                /\ \E k \in 0..Len(body) :
                      /\ \A i \in 1..k : body[i] = "0"
                      /\ Drop(body, k) = << "2", "1", "4", "7", "4", "8", "3", "6", "4", "8" >>
             THEN [ok |-> TRUE, value |-> I32Min]
        ELSE [ok |-> FALSE, value |-> 0]

\* The number of leading uppercase letters of a reference.
LetterLen(chars) ==
    IF \A i \in 1..Len(chars) : chars[i] \in Upper THEN Len(chars)
    ELSE (CHOOSE i \in 1..Len(chars) :
              chars[i] \notin Upper /\ \A j \in 1..(i - 1) : chars[j] \in Upper) - 1

\* cell.col = cell.col * 26 + letter, over the leading letters (at most 6 here:
\* a longer run of letters names a column beyond every grid).
ColumnOf(letters) ==
    LET f[i \in 0..Len(letters)] ==
            IF i = 0 THEN 0 ELSE (f[i - 1] * 26) + LetterVal(letters[i])
    IN  f[Len(letters)]

NoCell == [some |-> FALSE, cell |-> MkCell(0, 0), ovf |-> FALSE]

\* parse_cell_reference: [some, cell, ovf].  ovf: `cell.row -= 1` on row 0
\* (usize underflow; the wrapped row is beyond every grid, hence None).
parse_cell_reference(reference, rows, cols) ==
    LET At(r, c) ==
            IF r >= rows \/ c >= cols THEN NoCell
            ELSE [some |-> TRUE, cell |-> MkCell(r, c), ovf |-> FALSE]
        Row(n, row) ==
            IF ~row.ok \/ n > 6 THEN NoCell
            ELSE IF row.v = 0 THEN [NoCell EXCEPT !.ovf = TRUE]
            ELSE At(row.v - 1, ColumnOf(SubSeq(reference, 1, n)) - 1)
        Digits(n, digits) ==
            IF n >= Len(reference) \/ digits[1] \notin Digit THEN NoCell
            ELSE IF \E i \in 1..Len(digits) : digits[i] \notin Digit THEN NoCell
            ELSE Row(n, DigitsValue(digits))
        Letters(n) == Digits(n, Drop(reference, n))
    IN  IF reference = << >> \/ reference[1] \notin Upper THEN NoCell
        ELSE Letters(LetterLen(reference))

\* One operand of parse_binary_op: [operand, success, ovf].
ParseOperand(text, rows, cols) ==
    LET f[i \in 0..Len(text)] ==
            IF i = 0 THEN [v |-> 0, ok |-> TRUE, ovf |-> FALSE]
            ELSE LET p == f[i - 1] IN
                 IF ~p.ok THEN p
                 ELSE IF text[i] \in Digit
                 THEN [v   |-> WrapMul10Add(p.v, DigitVal(text[i])),
                       ok  |-> TRUE,
                       ovf |-> p.ovf \/ Mul10AddOverflows(p.v, DigitVal(text[i]))]
                 ELSE [p EXCEPT !.ok = FALSE]
        Literal(r) == [operand |-> OperandInt(r.v), success |-> r.ok, ovf |-> r.ovf]
        Ref(c) ==
            IF c.some
            THEN [operand |-> OperandCell(c.cell), success |-> TRUE, ovf |-> FALSE]
            ELSE [operand |-> OperandInt(0), success |-> FALSE, ovf |-> c.ovf]
    IN  IF text # << >> /\ text[1] \in Digit
        THEN Literal(f[Len(text)])
        ELSE Ref(parse_cell_reference(text, rows, cols))

\* parse_binary_op: both operands are parsed, also when the first one failed.
parse_binary_op(operand1, operand2, rows, cols) ==
    LET Both(a, b) ==
            [first |-> a.operand, second |-> b.operand,
             success |-> a.success /\ b.success, ovf |-> a.ovf \/ b.ovf]
    IN  Both(ParseOperand(operand1, rows, cols), ParseOperand(operand2, rows, cols))

ParseFail(ovf) == [func |-> new_constant(0), success |-> FALSE, ovf |-> ovf]

\* parse_range_function without the test of the order of the corners.
parse_range_any_order(expression, function_type, rows, cols) ==
    LET start_pos == IF function_type = "Stdev" THEN 6 ELSE 4
        Corners(tl, br) ==
            IF ~tl.some THEN ParseFail(tl.ovf)
            ELSE IF ~br.some THEN ParseFail(br.ovf)
            ELSE [func |-> new_range_function(function_type, tl.cell, br.cell),
                  success |-> TRUE, ovf |-> FALSE]
        Range(range_str, sep) ==
            IF sep = 0 THEN ParseFail(FALSE)
            ELSE Corners(parse_cell_reference(SubSeq(range_str, 1, sep - 1), rows, cols),
                         parse_cell_reference(Drop(range_str, sep), rows, cols))
        Inside(range_str) == Range(range_str, Find(range_str, ":"))
        Content(content, end_pos) ==
            IF end_pos = 0 THEN ParseFail(FALSE)
            ELSE Inside(SubSeq(content, 1, end_pos - 1))
        After(content) == Content(content, Find(content, ")"))
    IN  After(Drop(expression, start_pos))

parse_range_function(expression, function_type, rows, cols) ==
    LET start_pos == IF function_type = "Stdev" THEN 6 ELSE 4
        Corners(tl, br) ==
            IF ~tl.some THEN ParseFail(tl.ovf)
            ELSE IF ~br.some THEN ParseFail(br.ovf)
            ELSE IF tl.cell.row > br.cell.row \/ tl.cell.col > br.cell.col
            THEN ParseFail(FALSE)
            ELSE [func |-> new_range_function(function_type, tl.cell, br.cell),
                  success |-> TRUE, ovf |-> FALSE]
        Range(range_str, sep) ==
            IF sep = 0 THEN ParseFail(FALSE)
            ELSE Corners(parse_cell_reference(SubSeq(range_str, 1, sep - 1), rows, cols),
                         parse_cell_reference(Drop(range_str, sep), rows, cols))
        Inside(range_str) == Range(range_str, Find(range_str, ":"))
        Content(content, end_pos) ==
            IF end_pos = 0 THEN ParseFail(FALSE)
            ELSE Inside(SubSeq(content, 1, end_pos - 1))
        After(content) == Content(content, Find(content, ")"))
    IN  After(Drop(expression, start_pos))

ParseSleep(content, rows, cols) ==
    LET Literal(v) ==
            IF v.ok THEN [func |-> new_sleep(v.value), success |-> TRUE, ovf |-> FALSE]
            ELSE ParseFail(FALSE)
        Ref(c) ==
            IF c.some
            THEN [func |-> new_sleep_cell(c.cell), success |-> TRUE, ovf |-> FALSE]
            ELSE ParseFail(c.ovf)
        Value(value_str) ==
            IF value_str # << >> /\ (value_str[1] \in Digit \/ value_str[1] = "-")
            THEN Literal(ParseI32(value_str))
            ELSE Ref(parse_cell_reference(value_str, rows, cols))
        Content(end_pos) ==
            IF end_pos = 0 THEN ParseFail(FALSE)
            ELSE Value(SubSeq(content, 1, end_pos - 1))
    IN  Content(Find(content, ")"))

OperatorChars == {"+", "-", "*", "/"}

OperatorType(ch) ==
    CASE ch = "+" -> "Plus"
      [] ch = "-" -> "Minus"
      [] ch = "*" -> "Multiply"
      [] ch = "/" -> "Divide"

\* The 1-based position of the first operator that is not the first character.
OperatorPos(expression) ==
    IF \E i \in 2..Len(expression) : expression[i] \in OperatorChars
    THEN CHOOSE i \in 2..Len(expression) :
             /\ expression[i] \in OperatorChars
             /\ \A j \in 2..(i - 1) : expression[j] \notin OperatorChars
    ELSE 0

\* The range function an expression of 4 characters or more starts with.
RangePrefix(expression) ==
    IF Len(expression) < 4 THEN "None"
    ELSE IF StartsWith(expression, << "M", "I", "N", "(" >>) THEN "Min"
    ELSE IF StartsWith(expression, << "M", "A", "X", "(" >>) THEN "Max"
    ELSE IF StartsWith(expression, << "A", "V", "G", "(" >>) THEN "Avg"
    ELSE IF StartsWith(expression, << "S", "U", "M", "(" >>) THEN "Sum"
    ELSE IF StartsWith(expression, << "S", "T", "D", "E", "V", "(" >>) THEN "Stdev"
    ELSE "None"

\* parse_expression: [func, success, ovf].
parse_expression(expression, rows, cols) ==
    LET Binary(pos, b) ==
            IF ~b.success THEN ParseFail(b.ovf)
            ELSE [func |-> new_binary_op(OperatorType(expression[pos]),
                                         b.first, b.second),
                  success |-> TRUE, ovf |-> b.ovf]
        Literal(v) ==
            IF v.ok THEN [func |-> new_constant(v.value), success |-> TRUE, ovf |-> FALSE]
            ELSE ParseFail(FALSE)
        Ref(c) ==
            IF c.some
            THEN [func |-> new_binary_op("Plus", OperandCell(c.cell), OperandInt(0)),
                  success |-> TRUE, ovf |-> FALSE]
            ELSE ParseFail(c.ovf)
        Arithmetic(pos) ==
            IF pos # 0
            THEN Binary(pos, parse_binary_op(SubSeq(expression, 1, pos - 1),
                                             Drop(expression, pos), rows, cols))
            ELSE IF expression[1] \in Digit \/ expression[1] = "-"
            THEN Literal(ParseI32(expression))
            ELSE Ref(parse_cell_reference(expression, rows, cols))
        Prefixed(function_type) ==
            IF function_type # "None"
            THEN parse_range_function(expression, function_type, rows, cols)
            ELSE IF Len(expression) >= 4
                    /\ StartsWith(expression, << "S", "L", "E", "E", "P", "(" >>)
            THEN ParseSleep(Drop(expression, 6), rows, cols)
            ELSE Arithmetic(OperatorPos(expression))
    IN  IF expression = << >> THEN ParseFail(FALSE)
        ELSE Prefixed(RangePrefix(expression))

\* -------------------------------------------------------------------- grid

CellsOf(rows, cols) == { MkCell(r, c) : r \in 0..(rows - 1), c \in 0..(cols - 1) }

\* Backend::new: every cell is Constant(0), value 0, no error, no dependents.
BackendNew(rows, cols) ==
    [c \in CellsOf(rows, cols) |->
        [value |-> 0, dependents |-> << >>, function |-> new_constant(0),
         error |-> "NoError", dirty_parents |-> 0]]

\* The cells of a rectangle in the order of the nested row/col loops.
RangeSeq(tl, br) ==
    LET w == (br.col - tl.col) + 1
        h == (br.row - tl.row) + 1
    IN  [k \in 1..(w * h) |-> MkCell(tl.row + ((k - 1) \div w), tl.col + ((k - 1) % w))]

\* OperandCells with the `if let OperandData::Cell(dep)` arm never taken: an
\* operand names no cell.
NoOperandCells(operand) == << >>

OperandCells(operand) == IF operand.type_ = "Cell" THEN << operand.cell >> ELSE << >>

\* The cells a function reads, in the order the match arms visit them.
ParentsOf(func) ==
    CASE func.data.tag = "RangeFunction" ->
             RangeSeq(func.data.top_left, func.data.bottom_right)
      [] func.data.tag = "BinaryOp" ->
             OperandCells(func.data.first) \o OperandCells(func.data.second)
      [] func.data.tag = "SleepValue" -> OperandCells(func.data.operand)
      [] func.data.tag = "Value" -> << >>

\* Retain with the `deps.retain(..)` call left out.
KeepAll(deps, cell) == deps

\* deps.retain(|&(r, c)| !(r == cell.row && c == cell.col))
Retain(deps, cell) == SelectSeq(deps, LAMBDA d : d # cell)

\* deps.push((cell.row, cell.col))
Push(deps, cell) == Append(deps, cell)

\* update_graph with the "add new dependencies" half pushing `cell` on the
\* dependents of every other cell whenever the installed function has a parent.
update_graph_everywhere(g, cell, old_function) ==
    LET olds == ParentsOf(old_function)
        rem[i \in 0..Len(olds)] ==
            IF i = 0 THEN g
            ELSE [rem[i - 1] EXCEPT ![olds[i]].dependents =
                                        SelectSeq(@, LAMBDA d : d # cell)]
        Add(g1) ==
            IF ParentsOf(g[cell].function) = << >> THEN g1
            ELSE [c \in DOMAIN g1 |->
                     IF c = cell THEN g1[c]
                     ELSE [g1[c] EXCEPT !.dependents = Append(@, cell)]]
    IN  Add(rem[Len(olds)])

\* update_graph: drop `cell` from the dependents of every parent of old_function,
\* then push it on the dependents of every parent of the installed function.
update_graph(g, cell, old_function) ==
    LET olds == ParentsOf(old_function)
        rem[i \in 0..Len(olds)] ==
            IF i = 0 THEN g
            ELSE [rem[i - 1] EXCEPT ![olds[i]].dependents = Retain(@, cell)]
        news == ParentsOf(g[cell].function)
        add[i \in 0..Len(news)] ==
            IF i = 0 THEN rem[Len(olds)]
            ELSE [add[i - 1] EXCEPT ![news[i]].dependents = Push(@, cell)]
    IN  add[Len(news)]

Last(stack) == stack[Len(stack)]

Pop(stack) == SubSeq(stack, 1, Len(stack) - 1)

\* reset_found: the loop over the stack.
RECURSIVE ResetLoop(_, _)
ResetLoop(g, stack) ==
    IF stack = << >> THEN g
    ELSE LET deps == g[Last(stack)].dependents
             f[i \in 0..Len(deps)] ==
                 IF i = 0 THEN [grid |-> g, stack |-> Pop(stack)]
                 ELSE LET p == f[i - 1] IN
                      IF p.grid[deps[i]].dirty_parents > 0
                      THEN [grid  |-> [p.grid EXCEPT ![deps[i]].dirty_parents = 0],
                            stack |-> Append(p.stack, deps[i])]
                      ELSE p
         IN  ResetLoop(f[Len(deps)].grid, f[Len(deps)].stack)

\* reset_found that clears the marker of `start` only.
reset_start_only(g, start) == [g EXCEPT ![start].dirty_parents = 0]

reset_found(g, start) ==
    ResetLoop([g EXCEPT ![start].dirty_parents = 0], << start >>)

\* check_circular_dependency: the loop over the stack; [grid, found].
RECURSIVE CycleLoop(_, _, _)
CycleLoop(g, stack, start) ==
    IF stack = << >> THEN [grid |-> g, found |-> FALSE]
    ELSE LET deps == g[Last(stack)].dependents IN
         IF \E i \in 1..Len(deps) : deps[i] = start
         THEN [grid |-> g, found |-> TRUE]
         ELSE LET f[i \in 0..Len(deps)] ==
                      IF i = 0 THEN [grid |-> g, stack |-> Pop(stack)]
                      ELSE LET p == f[i - 1] IN
                           IF p.grid[deps[i]].dirty_parents = 0
                           THEN [grid  |-> [p.grid EXCEPT ![deps[i]].dirty_parents = 1],
                                 stack |-> Append(p.stack, deps[i])]
                           ELSE p
              IN  CycleLoop(f[Len(deps)].grid, f[Len(deps)].stack, start)

\* check_circular_dependency with the search left out: no cycle is ever found.
check_nothing(g, start) == [grid |-> g, found |-> FALSE]

\* check_circular_dependency with the search stopped after one level below
\* `start`.
check_one_level(g, start) ==
    [grid  |-> g,
     found |-> \E i \in 1..Len(g[start].dependents) :
                  \E j \in 1..Len(g[g[start].dependents[i]].dependents) :
                      g[g[start].dependents[i]].dependents[j] = start]

\* check_circular_dependency that finds a cycle whenever `start` has a dependent.
check_any_dependent(g, start) ==
    [grid |-> g, found |-> g[start].dependents # << >>]

check_circular_dependency(g, start) ==
    LET r == CycleLoop([g EXCEPT ![start].dirty_parents = 1], << start >>, start)
    IN  [grid |-> reset_found(r.grid, start), found |-> r.found]

\* One entry of a dependents list in set_dirty_parents that only flags the
\* child: pushed and marked on the first visit, left alone afterwards.
DirtyFlag(p, child) ==
    IF p.grid[child].dirty_parents = 0
    THEN [grid  |-> [p.grid EXCEPT ![child].dirty_parents = 1],
          stack |-> Append(p.stack, child)]
    ELSE p

\* One entry of a dependents list in set_dirty_parents: the child is pushed
\* when its marker is 0, and its marker is counted up.
DirtyVisit(p, child) ==
    [grid  |-> [p.grid EXCEPT ![child].dirty_parents = @ + 1],
     stack |-> IF p.grid[child].dirty_parents = 0
               THEN Append(p.stack, child) ELSE p.stack]

\* set_dirty_parents: the loop over the stack; expanded lists the cells in the
\* order they are popped.
RECURSIVE DirtyLoop(_, _, _)
DirtyLoop(g, stack, expanded) ==
    IF stack = << >> THEN [grid |-> g, expanded |-> expanded]
    ELSE LET deps == g[Last(stack)].dependents
             f[i \in 0..Len(deps)] ==
                 IF i = 0 THEN [grid |-> g, stack |-> Pop(stack)]
                 ELSE DirtyVisit(f[i - 1], deps[i])
         IN  DirtyLoop(f[Len(deps)].grid, f[Len(deps)].stack,
                       Append(expanded, Last(stack)))

\* set_dirty_parents with the cells it expanded.
set_dirty_parents_expanding(g, cell) ==
    DirtyLoop([g EXCEPT ![cell].dirty_parents = 0], << cell >>, << >>)

set_dirty_parents(g, cell) == set_dirty_parents_expanding(g, cell).grid

\* --------------------------------------------------------------- evaluator

\* An evaluation's outcome: the (value, error) pair of evaluate_expression, with
\* ovf (an i32 overflow happened on the way), trap (a panic in every build) and
\* slept (the seconds thread::sleep blocked).
Outcome(v, e, ovf, trap) ==
    [value |-> v, error |-> e, ovf |-> ovf, trap |-> trap, slept |-> 0]

OkValue(v, ovf) == Outcome(v, "NoError", ovf, FALSE)

ErrValue(e, ovf) == Outcome(0, e, ovf, FALSE)

\* get_operand_value reporting DependencyError for every cell holding an error.
get_operand_value_retagged(g, operand) ==
    IF operand.type_ = "Cell"
    THEN IF g[operand.cell].error = "NoError"
         THEN [error |-> "NoError", value |-> g[operand.cell].value]
         ELSE [error |-> "DependencyError", value |-> 0]
    ELSE [error |-> "NoError", value |-> operand.value]

\* get_operand_value: the operand's value, or the referenced cell's own error.
get_operand_value(g, operand) ==
    IF operand.type_ = "Cell"
    THEN IF g[operand.cell].error = "NoError"
         THEN [error |-> "NoError", value |-> g[operand.cell].value]
         ELSE [error |-> g[operand.cell].error, value |-> 0]
    ELSE [error |-> "NoError", value |-> operand.value]

plus_op(g, bin_op) ==
    LET first  == get_operand_value(g, bin_op.first)
        second == get_operand_value(g, bin_op.second)
    IN  IF first.error # "NoError" THEN ErrValue(first.error, FALSE)
        ELSE IF second.error # "NoError" THEN ErrValue(second.error, FALSE)
        ELSE OkValue(WrapAdd(first.value, second.value),
                     AddOverflows(first.value, second.value))

minus_op(g, bin_op) ==
    LET first  == get_operand_value(g, bin_op.first)
        second == get_operand_value(g, bin_op.second)
    IN  IF first.error # "NoError" THEN ErrValue(first.error, FALSE)
        ELSE IF second.error # "NoError" THEN ErrValue(second.error, FALSE)
        ELSE OkValue(WrapSub(first.value, second.value),
                     SubOverflows(first.value, second.value))

\* multiply_op: the abs() of i32::MIN overflows (wrapping to i32::MIN).
multiply_op(g, bin_op) ==
    LET first  == get_operand_value(g, bin_op.first)
        second == get_operand_value(g, bin_op.second)
        a      == first.value
        b      == second.value
        absOvf == a # 0 /\ b # 0 /\ (a = I32Min \/ b = I32Min)
    IN  IF first.error # "NoError" THEN ErrValue(first.error, FALSE)
        ELSE IF second.error # "NoError" THEN ErrValue(second.error, FALSE)
        ELSE IF a # 0 /\ b # 0
                /\ (\/ WrapAbs(a) > TruncDiv(I32Max, WrapAbs(b))
                    \/ WrapAbs(b) > TruncDiv(I32Max, WrapAbs(a)))
        THEN ErrValue("Overflow", absOvf)
        ELSE OkValue(WrapMul(a, b), absOvf \/ MulOverflows(a, b))

\* divide_op: i32::MIN / -1 panics in every build.
divide_op(g, bin_op) ==
    LET first  == get_operand_value(g, bin_op.first)
        second == get_operand_value(g, bin_op.second)
    IN  IF first.error # "NoError" THEN ErrValue(first.error, FALSE)
        ELSE IF second.error # "NoError" THEN ErrValue(second.error, FALSE)
        ELSE IF second.value = 0 THEN ErrValue("DivideByZero", FALSE)
        ELSE IF first.value = I32Min /\ second.value = -1
        THEN Outcome(0, "NoError", FALSE, TRUE)
        ELSE OkValue(TruncDiv(first.value, second.value), FALSE)

Min2(a, b) == IF a < b THEN a ELSE b

Max2(a, b) == IF a > b THEN a ELSE b

\* The loop shared by the range functions: walks the rectangle in row-major
\* order and stops at the first cell holding an error.
\* [error, min, max, sum, count, ovf, values].
RangeScan(g, range) ==
    LET cells == RangeSeq(range.top_left, range.bottom_right)
        f[i \in 0..Len(cells)] ==
            IF i = 0
            THEN [error |-> "NoError", min |-> I32Max, max |-> I32Min, sum |-> 0,
                  count |-> 0, ovf |-> FALSE, values |-> << >>]
            ELSE LET p == f[i - 1]
                     d == g[cells[i]]
                 IN  IF p.error # "NoError" THEN p
                     ELSE IF d.error # "NoError" THEN [p EXCEPT !.error = d.error]
                     ELSE [error  |-> "NoError",
                           min    |-> Min2(p.min, d.value),
                           max    |-> Max2(p.max, d.value),
                           sum    |-> WrapAdd(p.sum, d.value),
                           count  |-> p.count + 1,
                           ovf    |-> p.ovf \/ AddOverflows(p.sum, d.value),
                           values |-> Append(p.values, d.value)]
    IN  f[Len(cells)]

min_function(g, range) ==
    LET Of(s) == IF s.error # "NoError" THEN ErrValue(s.error, FALSE)
                 ELSE OkValue(s.min, FALSE)
    IN  Of(RangeScan(g, range))

max_function(g, range) ==
    LET Of(s) == IF s.error # "NoError" THEN ErrValue(s.error, FALSE)
                 ELSE OkValue(s.max, FALSE)
    IN  Of(RangeScan(g, range))

sum_function(g, range) ==
    LET Of(s) == IF s.error # "NoError" THEN ErrValue(s.error, s.ovf)
                 ELSE OkValue(s.sum, s.ovf)
    IN  Of(RangeScan(g, range))

avg_function(g, range) ==
    LET Of(s) == IF s.error # "NoError" THEN ErrValue(s.error, s.ovf)
                 ELSE IF s.count = 0 THEN ErrValue("DivideByZero", s.ovf)
                 ELSE OkValue(TruncDiv(s.sum, s.count), s.ovf)
    IN  Of(RangeScan(g, range))

\* round(sqrt(V)) for the rational V = mq + mr / n (0 <= mr < n): the largest
\* r in lo..hi with r = 0 or (r - 1/2)^2 <= V, that is r * (r - 1) + 1/4 <= V.
\* r * (r - 1) fits i32 up to r = 46341 > sqrt(2^31).
RECURSIVE RoundSqrtIn(_, _, _, _, _)
RoundSqrtIn(mq, mr, n, lo, hi) ==
    IF lo >= hi THEN lo
    ELSE LET mid == (lo + hi + 1) \div 2
             k   == mid * (mid - 1)
         IN  IF k < mq \/ (k = mq /\ n <= 4 * mr)
             THEN RoundSqrtIn(mq, mr, n, mid, hi)
             ELSE RoundSqrtIn(mq, mr, n, lo, mid - 1)

\* stdev_function: the mean is the truncated integer mean; the squared
\* differences are i32 products, summed as f64 (exactly: the sum is kept as
\* hi * 65536 + lo); the result is round(sqrt(sum / count)), 0 for a negative
\* sum (the square root is NaN, which casts to 0).
stdev_function(g, range) ==
    LET Squares(values, mean) ==
            LET Term(p, v, diff) ==
                    LET With(sq) ==
                            [hi  |-> p.hi + (sq \div 65536),
                             lo  |-> p.lo + (sq % 65536),
                             ovf |-> p.ovf \/ SubOverflows(v, mean)
                                          \/ MulOverflows(diff, diff)]
                    IN  With(WrapMul(diff, diff))
                f[i \in 0..Len(values)] ==
                    IF i = 0 THEN [hi |-> 0, lo |-> 0, ovf |-> FALSE]
                    ELSE Term(f[i - 1], values[i], WrapSub(values[i], mean))
            IN  f[Len(values)]
        \* h * 65536 + l is the sum, 0 <= l < 65536; w = (h % n) * 65536 + l
        Mean(s, q, h, w) ==
            IF h < 0 THEN OkValue(0, s.ovf \/ q.ovf)
            ELSE OkValue(RoundSqrtIn(((h \div s.count) * 65536) + (w \div s.count),
                                     w % s.count, s.count, 0, 46341),
                         s.ovf \/ q.ovf)
        Carry(s, q, h, l) == Mean(s, q, h, ((h % s.count) * 65536) + l)
        Root(s, q) == Carry(s, q, q.hi + (q.lo \div 65536), q.lo % 65536)
        Of(s) == IF s.error # "NoError" THEN ErrValue(s.error, s.ovf)
                 ELSE IF s.count = 0 THEN ErrValue("DivideByZero", s.ovf)
                 ELSE Root(s, Squares(s.values, TruncDiv(s.sum, s.count)))
    IN  Of(RangeScan(g, range))

\* sleep_function with the test `value > 0` left out.
sleep_function_unguarded(g, operand) ==
    LET v == get_operand_value(g, operand)
    IN  IF v.error # "NoError" THEN ErrValue(v.error, FALSE)
        ELSE [OkValue(v.value, FALSE) EXCEPT !.slept = v.value]

\* sleep_function: blocks for `value` seconds when value > 0.
sleep_function(g, operand) ==
    LET v == get_operand_value(g, operand)
    IN  IF v.error # "NoError" THEN ErrValue(v.error, FALSE)
        ELSE [OkValue(v.value, FALSE) EXCEPT !.slept = IF v.value > 0 THEN v.value ELSE 0]

\* evaluate_expression: (value, error) of a function against the grid g.
evaluate_expression(g, func) ==
    CASE func.data.tag = "BinaryOp" ->
             (CASE func.type_ = "Plus"     -> plus_op(g, func.data)
                [] func.type_ = "Minus"    -> minus_op(g, func.data)
                [] func.type_ = "Multiply" -> multiply_op(g, func.data)
                [] func.type_ = "Divide"   -> divide_op(g, func.data)
                [] OTHER -> ErrValue("DependencyError", FALSE))
      [] func.data.tag = "RangeFunction" ->
             (CASE func.type_ = "Min"   -> min_function(g, func.data)
                [] func.type_ = "Max"   -> max_function(g, func.data)
                [] func.type_ = "Avg"   -> avg_function(g, func.data)
                [] func.type_ = "Sum"   -> sum_function(g, func.data)
                [] func.type_ = "Stdev" -> stdev_function(g, func.data)
                [] OTHER -> ErrValue("DependencyError", FALSE))
      [] func.data.tag = "SleepValue" -> sleep_function(g, func.data.operand)
      [] func.data.tag = "Value" -> OkValue(func.data.value, FALSE)

\* ------------------------------------------------------------- propagation

\* DecrementAll with the `dirty_parents == 0` test left out: every dependent is
\* pushed at once.
PushAll(g, stack, deps) ==
    LET f[i \in 0..Len(deps)] ==
            IF i = 0 THEN [grid |-> g, stack |-> stack]
            ELSE LET p == f[i - 1]
                 IN  [grid  |-> [p.grid EXCEPT ![deps[i]].dirty_parents = @ - 1],
                      stack |-> Append(p.stack, deps[i])]
    IN  f[Len(deps)]

\* The loop over deps without its `dirty_parents -= 1`.
DecrementNone(g, stack, deps) == [grid |-> g, stack |-> stack]

\* `dirty_parents -= 1` on every cell of deps, pushing those that reach 0.
DecrementAll(g, stack, deps) ==
    LET f[i \in 0..Len(deps)] ==
            IF i = 0 THEN [grid |-> g, stack |-> stack]
            ELSE LET p  == f[i - 1]
                     g1 == [p.grid EXCEPT ![deps[i]].dirty_parents = @ - 1]
                 IN  [grid  |-> g1,
                      stack |-> IF g1[deps[i]].dirty_parents = 0
                                THEN Append(p.stack, deps[i]) ELSE p.stack]
    IN  f[Len(deps)]

\* update_dependents: the loop over process_stack.  st = [grid, stack, order,
\* ovf, trap, slept]; order lists the cells in the order they are evaluated.
RECURSIVE ProcessLoop(_)
ProcessLoop(st) ==
    IF st.stack = << >> \/ st.trap THEN st
    ELSE LET cur == Last(st.stack)
             Step(e, d) ==
                 [grid  |-> IF e.trap THEN st.grid ELSE d.grid,
                  stack |-> d.stack,
                  order |-> Append(st.order, cur),
                  ovf   |-> st.ovf \/ e.ovf,
                  trap  |-> e.trap,
                  slept |-> st.slept + e.slept]
             Stored(e, g1) ==
                 Step(e, DecrementAll(g1, Pop(st.stack), g1[cur].dependents))
             Evaluated(e) ==
                 Stored(e, [st.grid EXCEPT ![cur].value = e.value,
                                           ![cur].error = e.error])
         IN  ProcessLoop(Evaluated(evaluate_expression(st.grid,
                                                       st.grid[cur].function)))

\* update_dependents after set_dirty_parents left the grid g1: the dependents
\* of `cell` are counted down, then the loop over process_stack.
process_dependents(g1, cell) ==
    LET d == DecrementAll(g1, << >>, g1[cell].dependents)
    IN  ProcessLoop([grid |-> d.grid, stack |-> d.stack, order |-> << >>,
                     ovf |-> FALSE, trap |-> FALSE, slept |-> 0])

\* update_dependents with the propagation left out.
no_propagation(g, cell) ==
    [grid |-> g, stack |-> << >>, order |-> << >>, ovf |-> FALSE, trap |-> FALSE,
     slept |-> 0]

update_dependents(g, cell) == process_dependents(set_dirty_parents(g, cell), cell)

\* ---------------------------------------------------------- set_cell_value

\* SelfReference with the detection left out.
NoSelfReference(func, cell) == FALSE

\* Detect self-reference in new function.
SelfReference(func, cell) ==
    CASE func.data.tag = "BinaryOp" ->
             \/ func.data.first = OperandCell(cell)
             \/ func.data.second = OperandCell(cell)
      [] func.data.tag = "RangeFunction" ->
             /\ func.data.top_left.row <= cell.row
             /\ cell.row <= func.data.bottom_right.row
             /\ func.data.top_left.col <= cell.col
             /\ cell.col <= func.data.bottom_right.col
      [] func.data.tag = "SleepValue" -> func.data.operand = OperandCell(cell)
      [] func.data.tag = "Value" -> FALSE

Returned(g, res, order, ovf, trap, slept) ==
    [grid |-> g, result |-> res, order |-> order, ovf |-> ovf, trap |-> trap,
     slept |-> slept]

\* set_cell_value(cell, expression) on the grid g of a rows x cols backend.
\* result is "Ok", "CouldNotParse" or "CircularDependency"; grid is the grid
\* the call leaves (when it does not panic).
set_cell_value(g, rows, cols, cell, expression) ==
    LET old_function == g[cell].function
        \* the grid u the propagation leaves
        Propagated(ovf, slept, u) ==
            Returned(u.grid, "Ok", u.order, ovf \/ u.ovf, u.trap, slept + u.slept)
        \* constant: store value, error and function, then the edges
        Constant(p, e) ==
            Propagated(p.ovf, 0,
                update_dependents(
                    update_graph([g EXCEPT ![cell].value = e.value,
                                           ![cell].error = e.error,
                                           ![cell].function = p.func],
                                 cell, old_function),
                    cell))
        \* no cycle: store the evaluation e, then propagate
        Evaluated(p, c, e) ==
            IF e.trap THEN Returned(c.grid, "Ok", << >>, p.ovf \/ e.ovf, TRUE, 0)
            ELSE Propagated(p.ovf \/ e.ovf, e.slept,
                     update_dependents(
                         [c.grid EXCEPT ![cell].value = IF e.error = "NoError"
                                                        THEN e.value ELSE 0,
                                        ![cell].error = e.error],
                         cell))
        \* c is what check_circular_dependency returned on the new edges
        Checked(p, c) ==
            IF c.found
            THEN Returned(update_graph([c.grid EXCEPT ![cell].function = old_function],
                                       cell, p.func),
                          "CircularDependency", << >>, p.ovf, FALSE, 0)
            ELSE Evaluated(p, c, evaluate_expression(c.grid, p.func))
        Parsed(p) ==
            IF ~p.success THEN Returned(g, "CouldNotParse", << >>, p.ovf, FALSE, 0)
            ELSE IF p.func.type_ = "Constant"
            THEN Constant(p, evaluate_expression(g, p.func))
            ELSE IF SelfReference(p.func, cell)
            THEN Returned(g, "CircularDependency", << >>, p.ovf, FALSE, 0)
            ELSE Checked(p, check_circular_dependency(
                                update_graph([g EXCEPT ![cell].function = p.func],
                                             cell, old_function),
                                cell))
    IN  Parsed(parse_expression(expression, rows, cols))

\* ------------------------------------------------------------ the program

VARIABLES
    grid,       \* Backend.grid: cell -> CellData
    rows,       \* Backend.rows
    cols,       \* Backend.cols
    result,     \* what the last set_cell_value call returned ("New" before any)
    last,       \* the last call's arguments: [cell, text]
    evaluated,  \* the cells the last call's propagation evaluated, in order
    budget,     \* the number of calls the behaviour may still make
    formula_strings,  \* Backend.formula_strings (feature "gui"): cell -> text
    undo_stack, \* Backend.undo_stack (feature "gui"): snapshots, the newest last
    redo_stack, \* Backend.redo_stack (feature "gui"): snapshots, the newest last
    out,        \* what the last operation handed back besides result: the
                \* seconds a set_cell_value call blocked, the (value, error)
                \* of an evaluation, the Option<Cell> of a parsed reference,
                \* the status of a processed command
    top_left,   \* Frontend.top_left: the first visible cell
    do_print,   \* Frontend.do_print
    pc          \* where a set_cell_value call taken step by step stands, with
                \* its locals; Idle between calls

vars == << grid, rows, cols, result, last, evaluated, budget, formula_strings, out,
           top_left, do_print, pc, undo_stack, redo_stack >>

\* No call is under way.
Idle == [at |-> "idle"]

\* Backend::new: every formula string is "=0".
NewStrings(rows_, cols_) == [c \in CellsOf(rows_, cols_) |-> << "=", "0" >>]

\* The formula string a successful set_cell_value(cell, expression) stores:
\* "=" + expression on the constant path, the expression itself otherwise.
FormulaString(func, expression) ==
    IF func.type_ = "Constant" THEN << "=" >> \o expression ELSE expression

\* formula_strings after a call that returned r.
StringsAfter(strings, r, cell, expression) ==
    IF r.result = "Ok"
    THEN [strings EXCEPT ![cell] = FormulaString(r.grid[cell].function, expression)]
    ELSE strings

\* The expression texts the calls draw from.
Texts ==
    { << "1" >>,
      << "5" >>,
      << "A", "1" >>,
      << "B", "1" >>,
      << "B", "1", "+", "A", "2" >>,
      << "5", "/", "0" >>,
      << "A", "1", "+", "A", "1" >>,
      << "S", "U", "M", "(", "A", "1", ":", "B", "1", ")" >>,
      << "S", "L", "E", "E", "P", "(", "A", "2", ")" >>,
      << >>,
      << "S", "U", "M", "(", "B", "2", ":", "A", "1", ")" >>,
      << "C", "1" >>,
      << "A", "0" >> }

\* A1 = 1, B1 = A1, A2 = A1, B2 = B1 + A2: the diamond.
DiamondScript ==
    << [cell |-> MkCell(0, 0), text |-> << "1" >>],
       [cell |-> MkCell(0, 1), text |-> << "A", "1" >>],
       [cell |-> MkCell(1, 0), text |-> << "A", "1" >>],
       [cell |-> MkCell(1, 1), text |-> << "B", "1", "+", "A", "2" >>] >>

\* A1 = 10, B1 = A1 * 2.
DoubleScript ==
    << [cell |-> MkCell(0, 0), text |-> << "1", "0" >>],
       [cell |-> MkCell(0, 1), text |-> << "A", "1", "*", "2" >>] >>

Scripts == { << >>, DiamondScript, DoubleScript }

\* The calls of a script made one after the other on a fresh backend: what the
\* last one returned.
RECURSIVE RunFrom(_, _, _, _, _)
RunFrom(r, script, i, rows_, cols_) ==
    IF i > Len(script) THEN r
    ELSE RunFrom(CHOOSE x \in {set_cell_value(r.grid, rows_, cols_,
                                              script[i].cell, script[i].text)} : TRUE,
                 script, i + 1, rows_, cols_)

RunScript(script, rows_, cols_) ==
    RunFrom(Returned(BackendNew(rows_, cols_), "New", << >>, FALSE, FALSE, 0),
            script, 1, rows_, cols_)

\* formula_strings after the calls of a script on a fresh backend.
RECURSIVE StringsFrom(_, _, _, _, _)
StringsFrom(strings, script, i, rows_, cols_) ==
    IF i > Len(script) THEN strings
    ELSE StringsFrom(StringsAfter(strings,
                                  RunScript(SubSeq(script, 1, i), rows_, cols_),
                                  script[i].cell, script[i].text),
                     script, i + 1, rows_, cols_)

\* What a call can do: return, or panic (an overflow in a build with overflow
\* checks, or a trap in any build).
Outcomes(r) ==
    IF r.trap THEN {"Panic"}
    ELSE IF r.ovf THEN {"Panic", "Return"}
    ELSE {"Return"}

\* Backend::new(MaxRows, MaxCols), fresh or after the calls of a script.
Init ==
    /\ rows = MaxRows
    /\ cols = MaxCols
    /\ \E script \in Scripts :
          \E r \in {RunScript(script, MaxRows, MaxCols)} :
              /\ grid = r.grid
              /\ result = r.result
              /\ evaluated = r.order
              /\ last = IF script = << >>
                        THEN [cell |-> MkCell(0, 0), text |-> << >>]
                        ELSE script[Len(script)]
              /\ budget = IF script = << >> THEN MaxCalls ELSE MaxScriptCalls
              /\ formula_strings = StringsFrom(NewStrings(MaxRows, MaxCols), script, 1,
                                               MaxRows, MaxCols)
              /\ out = [slept |-> r.slept]
              /\ top_left = MkCell(0, 0)
              /\ undo_stack = << >>
              /\ redo_stack = << >>
              /\ do_print = TRUE
              /\ pc = Idle

\* One call of Backend::set_cell_value(cell, text).  A panic ends the program.
SetCellValue(cell, text) ==
    /\ result # "Panic"
    /\ budget > 0
    /\ \E r \in {set_cell_value(grid, rows, cols, cell, text)} :
          \E o \in Outcomes(r) :
              IF o = "Panic"
              THEN /\ result' = "Panic"
                   /\ evaluated' = << >>
                   /\ out' = [slept |-> 0]
                   /\ UNCHANGED << grid, formula_strings >>
              ELSE /\ result' = r.result
                   /\ evaluated' = r.order
                   /\ grid' = r.grid
                   /\ formula_strings' = StringsAfter(formula_strings, r, cell, text)
                   /\ out' = [slept |-> r.slept]
    /\ last' = [cell |-> cell, text |-> text]
    /\ budget' = budget - 1
    /\ UNCHANGED << rows, cols, undo_stack, redo_stack, top_left, do_print, pc >>

Next == \E cell \in CellsOf(rows, cols), text \in Texts : SetCellValue(cell, text)

Spec == Init /\ [][Next]_vars

\* ---------------------------------------------- the program, large values

\* Expression texts whose values reach the ends of the i32 range.
OverflowTexts ==
    { << "1" >>,
      << "-", "1" >>,
      << "2", "1", "4", "7", "4", "8", "3", "6", "4", "7" >>,
      << "-", "2", "1", "4", "7", "4", "8", "3", "6", "4", "8" >>,
      << "A", "1", "+", "1" >>,
      << "A", "1", "/", "A", "2" >> }

\* A fresh backend.
InitOverflow ==
    /\ rows = MaxRows
    /\ cols = MaxCols
    /\ grid = BackendNew(MaxRows, MaxCols)
    /\ result = "New"
    /\ evaluated = << >>
    /\ last = [cell |-> MkCell(0, 0), text |-> << >>]
    /\ budget = MaxCalls
    /\ formula_strings = NewStrings(MaxRows, MaxCols)
    /\ out = [slept |-> 0]
    /\ top_left = MkCell(0, 0)
    /\ undo_stack = << >>
    /\ redo_stack = << >>
    /\ do_print = TRUE
    /\ pc = Idle

NextOverflow ==
    \E cell \in CellsOf(rows, cols), text \in OverflowTexts : SetCellValue(cell, text)

SpecOverflow == InitOverflow /\ [][NextOverflow]_vars

\* ------------------------------------------------- the program, with errors

\* Expression texts whose evaluation fails (DivideByZero, Overflow) and texts
\* that reference the failing cells through operands, ranges and sleep.
ErrorTexts ==
    { << "1" >>,
      << "5", "/", "0" >>,
      << "6", "5", "5", "3", "6", "*", "6", "5", "5", "3", "6" >>,
      << "A", "1" >>,
      << "B", "1" >>,
      << "A", "1", "+", "A", "2" >>,
      << "S", "U", "M", "(", "A", "1", ":", "A", "1", ")" >>,
      << "M", "A", "X", "(", "A", "1", ":", "B", "1", ")" >>,
      << "S", "L", "E", "E", "P", "(", "A", "1", ")" >> }

NextErrors ==
    \E cell \in CellsOf(rows, cols), text \in ErrorTexts : SetCellValue(cell, text)

\* A fresh backend, then calls with the error texts.
SpecErrors == InitOverflow /\ [][NextErrors]_vars

\* ------------------------------------- the program, the documented examples

\* The expression texts of the doc comments of set_cell_value and
\* check_circular_dependency, written with a leading '=' (one of them with
\* spaces around the operator).
DocumentedTexts ==
    { << "=", "A", "1", "+", "B", "2" >>,
      << "=", "S", "U", "M", "(", "A", "1", ":", "B", "2", ")" >>,
      << "=", "A", "1", " ", "*", " ", "2" >>,
      << "=", "A", "2" >> }

\* The same expressions without the '=' and the spaces, and the constant of
\* the example.
PlainTexts ==
    { << "1", "0" >>,
      << "A", "1", "+", "B", "2" >>,
      << "S", "U", "M", "(", "A", "1", ":", "B", "2", ")" >>,
      << "A", "1", "*", "2" >>,
      << "A", "2" >> }

NextDocumented ==
    \E cell \in CellsOf(rows, cols), text \in DocumentedTexts \cup PlainTexts :
        SetCellValue(cell, text)

\* A fresh backend, then calls with the documented texts.
SpecDocumented == InitOverflow /\ [][NextDocumented]_vars

\* ------------------------------------------------ the program, the frontend

\* The number of rows and columns the board shows, and one scroll step.
MAX_WIDTH == 10

\* A usize is kept as an integer n standing for n mod 2^64: a negative n is
\* the value 2^64 + n a wrapping subtraction leaves.  The unsigned order:
ULess(a, b) == IF (a < 0) = (b < 0) THEN a < b ELSE b < 0

\* a + b leaves the usize range.
UAddOverflows(a, b) == (a < 0 /\ b < 0) \/ ((a < 0 \/ b < 0) /\ a + b >= 0)

UMin(a, b) == IF ULess(b, a) THEN b ELSE a

Whitespace == {" ", "\n"}

\* str::trim.
RECURSIVE Trim(_)
Trim(s_) ==
    IF s_ = << >> THEN s_
    ELSE IF s_[1] \in Whitespace THEN Trim(Drop(s_, 1))
    ELSE IF s_[Len(s_)] \in Whitespace THEN Trim(SubSeq(s_, 1, Len(s_) - 1))
    ELSE s_

\* str::trim_start_matches(prefix).
RECURSIVE TrimStartMatches(_, _)
TrimStartMatches(s_, prefix) ==
    IF StartsWith(s_, prefix) THEN TrimStartMatches(Drop(s_, Len(prefix)), prefix) ELSE s_

ScrollTo == << "s", "c", "r", "o", "l", "l", "_", "t", "o", " " >>

\* The state a frontend command leaves: whether it was recognised, the
\* viewport, do_print, whether an addition or subtraction left the usize
\* range, whether the process exited.
Ran(ok, tl, print, ovf) ==
    [ok |-> ok, top_left |-> tl, do_print |-> print, ovf |-> ovf, exit |-> FALSE]

\* "s"/"d": one step forward when two more boards fit, else to size - MAX_WIDTH.
scroll_forward(at, size) ==
    IF ~ULess(size, at + 2 * MAX_WIDTH)
    THEN [at |-> at + MAX_WIDTH,
          ovf |-> UAddOverflows(at, 2 * MAX_WIDTH) \/ UAddOverflows(at, MAX_WIDTH)]
    ELSE [at |-> size - MAX_WIDTH,
          ovf |-> UAddOverflows(at, 2 * MAX_WIDTH) \/ ULess(size, MAX_WIDTH)]

\* "w"/"a": one step back, stopping at 0.
scroll_back(at) == IF ~ULess(at, MAX_WIDTH) THEN at - MAX_WIDTH ELSE 0

\* Frontend::run_frontend_command (feature "cli").
run_frontend_command(tl, print, rows_, cols_, cmd) ==
    LET Row(step) == Ran(TRUE, [tl EXCEPT !.row = step.at], print, step.ovf)
        Col(step) == Ran(TRUE, [tl EXCEPT !.col = step.at], print, step.ovf)
        Target(p) == IF p.some THEN Ran(TRUE, p.cell, print, p.ovf)
                     ELSE Ran(FALSE, tl, print, p.ovf)
    IN  IF cmd = << "d", "i", "s", "a", "b", "l", "e", "_", "o", "u", "t", "p", "u", "t" >>
        THEN Ran(TRUE, tl, FALSE, FALSE)
        ELSE IF cmd = << "e", "n", "a", "b", "l", "e", "_", "o", "u", "t", "p", "u", "t" >>
        THEN Ran(TRUE, tl, TRUE, FALSE)
        ELSE IF cmd = << "q" >> THEN [Ran(TRUE, tl, print, FALSE) EXCEPT !.exit = TRUE]
        ELSE IF cmd = << "w" >> THEN Row([at |-> scroll_back(tl.row), ovf |-> FALSE])
        ELSE IF cmd = << "s" >> THEN Row(scroll_forward(tl.row, rows_))
        ELSE IF cmd = << "a" >> THEN Col([at |-> scroll_back(tl.col), ovf |-> FALSE])
        ELSE IF cmd = << "d" >> THEN Col(scroll_forward(tl.col, cols_))
        ELSE IF StartsWith(cmd, ScrollTo)
        THEN Target(parse_cell_reference(Trim(TrimStartMatches(cmd, ScrollTo)),
                                         rows_, cols_))
        ELSE Ran(FALSE, tl, print, FALSE)

\* What Frontend::run_command leaves: the backend call's record with the
\* frontend's state and whether the command was applied.
Commanded(r, ran) ==
    [grid |-> r.grid, result |-> r.result, order |-> r.order, slept |-> r.slept,
     ovf |-> r.ovf \/ ran.ovf, trap |-> r.trap, exit |-> ran.exit,
     ok |-> ran.ok, top_left |-> ran.top_left, do_print |-> ran.do_print]

\* Frontend::run_command (feature "cli"): an input starting with an upper-case
\* letter is a cell assignment <ref>=<expr>, any other a frontend command.
run_command(g, tl, print, rows_, cols_, input) ==
    LET Quiet == Returned(g, "None", << >>, FALSE, FALSE, 0)
        Assign(r) == Commanded(r, Ran(r.result = "Ok", tl, print, FALSE))
        Refused(ovf) == Commanded(Quiet, Ran(FALSE, tl, print, ovf))
        To(p, expr) ==
            IF p.some THEN Assign(set_cell_value(g, rows_, cols_, p.cell, expr))
            ELSE Refused(p.ovf)
        At(eq_pos) ==
            IF eq_pos = 0 THEN Refused(FALSE)
            ELSE To(parse_cell_reference(SubSeq(input, 1, eq_pos - 1), rows_, cols_),
                    Drop(input, eq_pos))
    IN  IF input # << >> /\ input[1] \in Upper
        THEN At(Find(input, "="))
        ELSE Commanded(Quiet, run_frontend_command(tl, print, rows_, cols_, input))

\* Frontend::print_board: what reading the visible cells can do.  ovf: a
\* subtraction or addition leaves the usize range; trap: a row index beyond
\* the grid (the Vec index panics); ub: a column beyond the row's Vec (the
\* pointer read is undefined).
print_board(tl, print, rows_, cols_) ==
    LET row_width == UMin(MAX_WIDTH, rows_ - tl.row)
        col_width == UMin(MAX_WIDTH, cols_ - tl.col)
        some_col == ULess(tl.col, tl.col + col_width)
        some_row == ULess(tl.row, tl.row + row_width)
    IN  IF ~print THEN [ovf |-> FALSE, trap |-> FALSE, ub |-> FALSE]
        ELSE [ovf  |-> \/ ULess(rows_, tl.row) \/ ULess(cols_, tl.col)
                       \/ UAddOverflows(tl.col, col_width)
                       \/ UAddOverflows(tl.row, row_width),
              trap |-> some_row /\ some_col /\ ~ULess(tl.row, rows_),
              ub   |-> some_row /\ some_col /\ ULess(tl.row, rows_)
                       /\ ~ULess(tl.col, cols_)]

\* Frontend::process_command (feature "cli"): the status it reports.  The
\* remove_spaces call works on a temporary copy of the input and changes
\* nothing; an input that is empty after trim is "ok" and prints nothing.
process_command(g, tl, print, rows_, cols_, input) ==
    LET Empty == Commanded(Returned(g, "None", << >>, FALSE, FALSE, 0),
                           Ran(TRUE, tl, print, FALSE))
        Printed(c, b) ==
            [grid |-> c.grid, result |-> c.result, order |-> c.order,
             slept |-> c.slept, exit |-> c.exit, top_left |-> c.top_left,
             do_print |-> c.do_print,
             status |-> IF c.ok THEN "ok" ELSE "err",
             ovf |-> c.ovf \/ (~c.exit /\ (b.ovf \/ b.ub)),
             trap |-> c.trap \/ (~c.exit /\ b.trap)]
        With(c) == Printed(c, print_board(c.top_left, c.do_print, rows_, cols_))
    IN  IF Trim(input) = << >>
        THEN Printed(Empty, [ovf |-> FALSE, trap |-> FALSE, ub |-> FALSE])
        ELSE With(run_command(g, tl, print, rows_, cols_, Trim(input)))

\* The sizes of the boards: smaller than one board, exactly two boards high or
\* wide, and larger.
FrontSizes == { << 5, 5 >>, << 20, 2 >>, << 2, 20 >>, << 25, 25 >> }

\* The number of commands a behaviour processes.
MaxCommands == 3

\* The inputs typed: empty lines, the frontend commands, scroll targets in and
\* out of the grid, cell assignments that succeed, close a cycle, do not parse
\* or name a cell outside the grid, and an unknown command.
FrontInputs ==
    { << >>,
      << " " >>,
      << "w" >>,
      << "s" >>,
      << "a" >>,
      << "d" >>,
      << " ", "s", "\n" >>,
      << "q" >>,
      << "d", "i", "s", "a", "b", "l", "e", "_", "o", "u", "t", "p", "u", "t" >>,
      << "e", "n", "a", "b", "l", "e", "_", "o", "u", "t", "p", "u", "t" >>,
      << "i", "n", "v", "a", "l", "i", "d", "_", "c", "o", "m", "m", "a", "n", "d" >>,
      << "s", "c", "r", "o", "l", "l", "_", "t", "o", " ", "B", "2" >>,
      << "s", "c", "r", "o", "l", "l", "_", "t", "o", " ", "A", "1", "6" >>,
      << "s", "c", "r", "o", "l", "l", "_", "t", "o", " ", "P", "1" >>,
      << "s", "c", "r", "o", "l", "l", "_", "t", "o", " ", "I", "n", "v", "a", "l", "i", "d", "C", "e", "l", "l" >>,
      << "s", "c", "r", "o", "l", "l", "_", "t", "o", " ", "A", "0" >>,
      << "A", "1", "=", "5" >>,
      << "B", "1", "=", "A", "1" >>,
      << "A", "1", "=", "B", "1" >>,
      << "A", "1", "=" >>,
      << "A", "1" >>,
      << "Z", "9", "=", "1" >>,
      << "A", "0", "=", "1" >> }

\* Frontend::new(rows, cols).
InitFrontend ==
    /\ \E size \in FrontSizes :
          /\ rows = size[1]
          /\ cols = size[2]
          /\ grid = BackendNew(size[1], size[2])
          /\ formula_strings = NewStrings(size[1], size[2])
    /\ result = "New"
    /\ evaluated = << >>
    /\ last = [input |-> << >>]
    /\ budget = MaxCommands
    /\ out = [status |-> "ok"]
    /\ top_left = MkCell(0, 0)
    /\ undo_stack = << >>
    /\ redo_stack = << >>
    /\ do_print = TRUE
    /\ pc = Idle

\* One call of Frontend::process_command(input).  A panic and "q" end the
\* program.
ProcessCommand(input) ==
    /\ result \notin {"Panic", "Exit"}
    /\ budget > 0
    /\ \E c \in {process_command(grid, top_left, do_print, rows, cols, input)} :
          \E o \in Outcomes(c) :
              IF c.exit
              THEN /\ result' = "Exit"
                   /\ UNCHANGED << grid, top_left, do_print, out, evaluated >>
              ELSE IF o = "Panic"
              THEN /\ result' = "Panic"
                   /\ UNCHANGED << grid, top_left, do_print, out, evaluated >>
              ELSE /\ result' = "Processed"
                   /\ grid' = c.grid
                   /\ top_left' = c.top_left
                   /\ do_print' = c.do_print
                   /\ evaluated' = c.order
                   /\ out' = [status |-> c.status]
    /\ last' = [input |-> input]
    /\ budget' = budget - 1
    /\ UNCHANGED << rows, cols, undo_stack, redo_stack, formula_strings, pc >>

NextFrontend == \E input \in FrontInputs : ProcessCommand(input)

SpecFrontend == InitFrontend /\ [][NextFrontend]_vars

\* ------------------------------------ the program, set_cell_value by steps

\* The expression texts of the calls taken step by step.
StepTexts ==
    { << "5" >>,
      << "A", "1" >>,
      << "B", "1" >>,
      << "A", "2" >>,
      << "A", "1", "+", "A", "1" >>,
      << "B", "1", "+", "A", "2" >>,
      << "S", "U", "M", "(", "A", "1", ":", "B", "1", ")" >>,
      << "5", "/", "0" >>,
      << "C", "1" >> }

\* `(*cell_ptr).function = new_function` with the evaluation written at once.
install_and_evaluate(g, cell, func) ==
    [g EXCEPT ![cell].function = func,
              ![cell].value = evaluate_expression(g, func).value,
              ![cell].error = evaluate_expression(g, func).error]

\* `(*cell_ptr).function = new_function`.
install_function(g, cell, func) == [g EXCEPT ![cell].function = func]

\* The locals of a call that has come to `at`.
Position(at, cell, old_function, new_function, before) ==
    [at |-> at, cell |-> cell, old_function |-> old_function,
     new_function |-> new_function, before |-> before, found |-> FALSE,
     expanded |-> << >>]

\* set_cell_value(cell, text) up to the first write: the parse, the constant
\* path's store of value, error and function, the self-reference test, the
\* installation of the new function.
BeginCall(cell, text) ==
    /\ pc = Idle
    /\ result # "Panic"
    /\ budget > 0
    /\ \E p \in {parse_expression(text, rows, cols)} :
          \E o \in Outcomes([ovf |-> p.ovf, trap |-> FALSE]) :
              IF o = "Panic"
              THEN result' = "Panic" /\ UNCHANGED << grid, pc >>
              ELSE IF ~p.success
              THEN result' = "CouldNotParse" /\ UNCHANGED << grid, pc >>
              ELSE IF p.func.type_ = "Constant"
              THEN \E e \in {evaluate_expression(grid, p.func)} :
                      /\ grid' = [grid EXCEPT ![cell].value = e.value,
                                              ![cell].error = e.error,
                                              ![cell].function = p.func]
                      /\ pc' = Position("stored", cell, grid[cell].function, p.func, grid)
                      /\ result' = "Running"
              ELSE IF SelfReference(p.func, cell)
              THEN result' = "CircularDependency" /\ UNCHANGED << grid, pc >>
              ELSE /\ grid' = install_function(grid, cell, p.func)
                   /\ pc' = Position("installed", cell, grid[cell].function, p.func, grid)
                   /\ result' = "Running"
    /\ last' = [cell |-> cell, text |-> text]
    /\ budget' = budget - 1
    /\ evaluated' = << >>
    /\ out' = [slept |-> 0]
    /\ UNCHANGED << rows, cols, undo_stack, redo_stack, formula_strings, top_left, do_print >>

\* `self.update_graph(&cell, &old_function)` of the call under way.
LinkStep ==
    /\ result = "Running"
    /\ pc.at \in {"installed", "stored"}
    /\ grid' = update_graph(grid, pc.cell, pc.old_function)
    /\ pc' = [pc EXCEPT !.at = IF pc.at = "installed" THEN "linked" ELSE "evaluated"]
    /\ UNCHANGED << rows, cols, undo_stack, redo_stack, result, last, evaluated, budget, formula_strings, out,
                    top_left, do_print >>

\* `self.check_circular_dependency(&cell)` of the call under way.
CheckStep ==
    /\ result = "Running"
    /\ pc.at = "linked"
    /\ \E c \in {check_circular_dependency(grid, pc.cell)} :
          /\ grid' = c.grid
          /\ pc' = [pc EXCEPT !.at = "checked", !.found = c.found]
    /\ UNCHANGED << rows, cols, undo_stack, redo_stack, result, last, evaluated, budget, formula_strings, out,
                    top_left, do_print >>

\* A cycle was found: `(*cell_ptr).function = old_function`.
RevertStep ==
    /\ result = "Running"
    /\ pc.at = "checked" /\ pc.found
    /\ grid' = [grid EXCEPT ![pc.cell].function = pc.old_function]
    /\ pc' = [pc EXCEPT !.at = "reverted"]
    /\ UNCHANGED << rows, cols, undo_stack, redo_stack, result, last, evaluated, budget, formula_strings, out,
                    top_left, do_print >>

\* `self.update_graph(&cell, &new_function)` and the return of
\* Err(CircularDependency).
ReconnectStep ==
    /\ result = "Running"
    /\ pc.at = "reverted"
    /\ grid' = update_graph(grid, pc.cell, pc.new_function)
    /\ pc' = Idle
    /\ result' = "CircularDependency"
    /\ UNCHANGED << rows, cols, undo_stack, redo_stack, last, evaluated, budget, formula_strings, out,
                    top_left, do_print >>

\* No cycle: the new function is evaluated and value and error are stored.
EvaluateStep ==
    /\ result = "Running"
    /\ pc.at = "checked" /\ ~pc.found
    /\ \E e \in {evaluate_expression(grid, pc.new_function)} :
          \E o \in Outcomes(e) :
              IF o = "Panic"
              THEN result' = "Panic" /\ UNCHANGED << grid, pc, out >>
              ELSE /\ grid' = [grid EXCEPT ![pc.cell].value = IF e.error = "NoError"
                                                             THEN e.value ELSE 0,
                                           ![pc.cell].error = e.error]
                   /\ pc' = [pc EXCEPT !.at = "evaluated"]
                   /\ out' = [slept |-> e.slept]
                   /\ UNCHANGED result
    /\ UNCHANGED << rows, cols, undo_stack, redo_stack, last, evaluated, budget, formula_strings,
                    top_left, do_print >>

\* update_dependents, first half: `self.set_dirty_parents(cell, ..)`.
MarkStep ==
    /\ result = "Running"
    /\ pc.at = "evaluated"
    /\ \E m \in {set_dirty_parents_expanding(grid, pc.cell)} :
          /\ grid' = m.grid
          /\ pc' = [pc EXCEPT !.at = "marked", !.expanded = m.expanded]
    /\ UNCHANGED << rows, cols, undo_stack, redo_stack, result, last, evaluated, budget, formula_strings, out,
                    top_left, do_print >>

\* update_dependents, second half, the formula string and the return of Ok.
PropagateStep ==
    /\ result = "Running"
    /\ pc.at = "marked"
    /\ \E u \in {process_dependents(grid, pc.cell)} :
          \E o \in Outcomes(u) :
              IF o = "Panic"
              THEN result' = "Panic" /\ UNCHANGED << grid, pc, out, evaluated,
                                                     formula_strings >>
              ELSE /\ grid' = u.grid
                   /\ evaluated' = u.order
                   /\ out' = [slept |-> out.slept + u.slept]
                   /\ formula_strings' =
                          [formula_strings EXCEPT
                              ![pc.cell] = FormulaString(pc.new_function, last.text)]
                   /\ pc' = Idle
                   /\ result' = "Ok"
    /\ UNCHANGED << rows, cols, undo_stack, redo_stack, last, budget, top_left, do_print >>

\* Backend::check_circular_dependency(start) called from outside a call.
CheckCircularDependency(start) ==
    /\ pc = Idle
    /\ result # "Panic"
    /\ budget > 0
    /\ \E c \in {check_circular_dependency(grid, start)} :
          /\ grid' = c.grid
          /\ out' = [found |-> c.found]
    /\ result' = "Checked"
    /\ last' = [cell |-> start, text |-> << >>]
    /\ budget' = budget - 1
    /\ UNCHANGED << rows, cols, undo_stack, redo_stack, evaluated, formula_strings, top_left, do_print, pc >>

\* Backend::update_graph(cell, f) called with the function f the cell holds.
UpdateGraphInPlace(cell) ==
    /\ pc = Idle
    /\ result # "Panic"
    /\ budget > 0
    /\ grid' = update_graph(grid, cell, grid[cell].function)
    /\ result' = "Relinked"
    /\ last' = [cell |-> cell, text |-> << >>]
    /\ budget' = budget - 1
    /\ UNCHANGED << rows, cols, undo_stack, redo_stack, evaluated, formula_strings, out, top_left, do_print, pc >>

NextSteps ==
    \/ \E cell \in CellsOf(rows, cols), text \in StepTexts : BeginCall(cell, text)
    \/ LinkStep
    \/ CheckStep
    \/ RevertStep
    \/ ReconnectStep
    \/ EvaluateStep
    \/ MarkStep
    \/ PropagateStep
    \/ \E start \in CellsOf(rows, cols) : CheckCircularDependency(start)
    \/ \E cell \in CellsOf(rows, cols) : UpdateGraphInPlace(cell)

SpecSteps == Init /\ [][NextSteps]_vars

\* ------------------------------------- the program, set_cell_value by loops

\* The expression texts of the calls whose loops are taken one iteration at a
\* time.
LoopTexts ==
    { << "5" >>,
      << "A", "1" >>,
      << "B", "1" >>,
      << "A", "1", "+", "A", "1" >>,
      << "B", "1", "+", "A", "2" >>,
      << "S", "U", "M", "(", "A", "1", ":", "B", "1", ")" >>,
      << "A", "2" >> }

\* The locals of a call inside one of its loops: those of Position with the
\* loop's stack.
Working(p, at, stack) ==
    [at |-> at, cell |-> p.cell, old_function |-> p.old_function,
     new_function |-> p.new_function, before |-> p.before, found |-> p.found,
     expanded |-> p.expanded, stack |-> stack]

\* The locals of a call that has left a loop.
Left(p, at) ==
    [at |-> at, cell |-> p.cell, old_function |-> p.old_function,
     new_function |-> p.new_function, before |-> p.before, found |-> p.found,
     expanded |-> p.expanded]

\* One iteration of the loop of check_circular_dependency: the first pass
\* looks for `start` among the dependents of the popped cell, the second
\* marks and pushes those whose marker is 0.
SearchIteration(g, stack, start) ==
    LET deps == g[Last(stack)].dependents IN
    IF \E i \in 1..Len(deps) : deps[i] = start
    THEN [grid |-> g, stack |-> Pop(stack), found |-> TRUE]
    ELSE LET f[i \in 0..Len(deps)] ==
                 IF i = 0 THEN [grid |-> g, stack |-> Pop(stack)]
                 ELSE LET p == f[i - 1] IN
                      IF p.grid[deps[i]].dirty_parents = 0
                      THEN [grid  |-> [p.grid EXCEPT ![deps[i]].dirty_parents = 1],
                            stack |-> Append(p.stack, deps[i])]
                      ELSE p
         IN  [grid |-> f[Len(deps)].grid, stack |-> f[Len(deps)].stack, found |-> FALSE]

\* An iteration of the loop of reset_found that pops nothing.
ResetStuck(g, stack) == [grid |-> g, stack |-> stack]

\* One iteration of the loop of reset_found.
ResetIteration(g, stack) ==
    LET deps == g[Last(stack)].dependents
        f[i \in 0..Len(deps)] ==
            IF i = 0 THEN [grid |-> g, stack |-> Pop(stack)]
            ELSE LET p == f[i - 1] IN
                 IF p.grid[deps[i]].dirty_parents > 0
                 THEN [grid  |-> [p.grid EXCEPT ![deps[i]].dirty_parents = 0],
                       stack |-> Append(p.stack, deps[i])]
                 ELSE p
    IN  f[Len(deps)]

\* One iteration of the loop of set_dirty_parents.
MarkIteration(g, stack) ==
    LET deps == g[Last(stack)].dependents
        f[i \in 0..Len(deps)] ==
            IF i = 0 THEN [grid |-> g, stack |-> Pop(stack)]
            ELSE DirtyVisit(f[i - 1], deps[i])
    IN  f[Len(deps)]

\* check_circular_dependency of the call under way, up to its loop: `start`
\* is marked and pushed.
SearchBegin ==
    /\ result = "Running"
    /\ pc.at = "linked"
    /\ grid' = [grid EXCEPT ![pc.cell].dirty_parents = 1]
    /\ pc' = Working(pc, "searching", << pc.cell >>)
    /\ UNCHANGED << rows, cols, undo_stack, redo_stack, result, last, evaluated, budget,
                    formula_strings, out, top_left, do_print >>

\* One iteration of the loop of check_circular_dependency, or its end: the
\* stack is empty or a cycle was found.
SearchStep ==
    /\ result = "Running"
    /\ pc.at = "searching"
    /\ IF pc.stack = << >>
       THEN /\ pc' = Left(pc, "searched")
            /\ UNCHANGED grid
       ELSE \E r \in {SearchIteration(grid, pc.stack, pc.cell)} :
               /\ grid' = r.grid
               /\ pc' = IF r.found
                        THEN [Left(pc, "searched") EXCEPT !.found = TRUE]
                        ELSE Working(pc, "searching", r.stack)
    /\ UNCHANGED << rows, cols, undo_stack, redo_stack, result, last, evaluated, budget,
                    formula_strings, out, top_left, do_print >>

\* reset_found up to its loop: the marker of `start` is cleared and `start`
\* pushed.
ResetBegin ==
    /\ result = "Running"
    /\ pc.at = "searched"
    /\ grid' = [grid EXCEPT ![pc.cell].dirty_parents = 0]
    /\ pc' = Working(pc, "resetting", << pc.cell >>)
    /\ UNCHANGED << rows, cols, undo_stack, redo_stack, result, last, evaluated, budget,
                    formula_strings, out, top_left, do_print >>

\* One iteration of the loop of reset_found, or its end and the return of
\* check_circular_dependency.
ResetStep ==
    /\ result = "Running"
    /\ pc.at = "resetting"
    /\ IF pc.stack = << >>
       THEN /\ pc' = Left(pc, "checked")
            /\ UNCHANGED grid
       ELSE \E r \in {ResetIteration(grid, pc.stack)} :
               /\ grid' = r.grid
               /\ pc' = Working(pc, "resetting", r.stack)
    /\ UNCHANGED << rows, cols, undo_stack, redo_stack, result, last, evaluated, budget,
                    formula_strings, out, top_left, do_print >>

\* set_dirty_parents up to its loop: the marker of the cell is cleared and
\* the cell pushed.
MarkBegin ==
    /\ result = "Running"
    /\ pc.at = "evaluated"
    /\ grid' = [grid EXCEPT ![pc.cell].dirty_parents = 0]
    /\ pc' = Working(pc, "marking", << pc.cell >>)
    /\ UNCHANGED << rows, cols, undo_stack, redo_stack, result, last, evaluated, budget,
                    formula_strings, out, top_left, do_print >>

\* One iteration of the loop of set_dirty_parents, or its end.
MarkLoopStep ==
    /\ result = "Running"
    /\ pc.at = "marking"
    /\ IF pc.stack = << >>
       THEN /\ pc' = Left(pc, "marked")
            /\ UNCHANGED grid
       ELSE \E r \in {MarkIteration(grid, pc.stack)} :
               /\ grid' = r.grid
               /\ pc' = [Working(pc, "marking", r.stack)
                             EXCEPT !.expanded = Append(pc.expanded, Last(pc.stack))]
    /\ UNCHANGED << rows, cols, undo_stack, redo_stack, result, last, evaluated, budget,
                    formula_strings, out, top_left, do_print >>

\* update_dependents after set_dirty_parents, up to its loop: the dependents
\* of the cell are counted down and those that reach 0 pushed.
PropagateBegin ==
    /\ result = "Running"
    /\ pc.at = "marked"
    /\ \E d \in {DecrementAll(grid, << >>, grid[pc.cell].dependents)} :
          /\ grid' = d.grid
          /\ pc' = Working(pc, "propagating", d.stack)
    /\ UNCHANGED << rows, cols, undo_stack, redo_stack, result, last, evaluated, budget,
                    formula_strings, out, top_left, do_print >>

\* One iteration of the loop over process_stack, or its end, the formula
\* string and the return of Ok.
PropagateLoopStep ==
    /\ result = "Running"
    /\ pc.at = "propagating"
    /\ IF pc.stack = << >>
       THEN /\ formula_strings' =
                   [formula_strings EXCEPT
                       ![pc.cell] = FormulaString(pc.new_function, last.text)]
            /\ pc' = Idle
            /\ result' = "Ok"
            /\ UNCHANGED << grid, evaluated, out >>
       ELSE \E cur \in {Last(pc.stack)} :
            \E e \in {evaluate_expression(grid, grid[cur].function)} :
            \E o \in Outcomes(e) :
               IF o = "Panic"
               THEN result' = "Panic"
                    /\ UNCHANGED << grid, pc, out, evaluated, formula_strings >>
               ELSE \E d \in {DecrementAll([grid EXCEPT ![cur].value = e.value,
                                                        ![cur].error = e.error],
                                           Pop(pc.stack), grid[cur].dependents)} :
                       /\ grid' = d.grid
                       /\ pc' = Working(pc, "propagating", d.stack)
                       /\ evaluated' = Append(evaluated, cur)
                       /\ out' = [slept |-> out.slept + e.slept]
                       /\ UNCHANGED << result, formula_strings >>
    /\ UNCHANGED << rows, cols, undo_stack, redo_stack, last, budget, top_left, do_print >>

\* The steps of a call under way.
LoopSteps ==
    \/ LinkStep
    \/ SearchBegin
    \/ SearchStep
    \/ ResetBegin
    \/ ResetStep
    \/ RevertStep
    \/ ReconnectStep
    \/ EvaluateStep
    \/ MarkBegin
    \/ MarkLoopStep
    \/ PropagateBegin
    \/ PropagateLoopStep

NextLoops ==
    \/ \E cell \in CellsOf(rows, cols), text \in LoopTexts : BeginCall(cell, text)
    \/ LoopSteps

SpecLoops == Init /\ [][NextLoops]_vars

\* The program goes on with a call under way: it is sequential, and a step
\* that can be taken is the statement it executes next.
SpecLoopsFair == SpecLoops /\ WF_vars(LoopSteps)

\* ------------------------------------------------ the program, snapshots

\* create_snapshot that does not copy the dependents lists.
create_snapshot_shallow(g, strings, rows_, cols_) ==
    [c \in CellsOf(rows_, cols_) |->
        [data |-> [g[c] EXCEPT !.dependents = << >>], string |-> strings[c]]]

\* create_snapshot: a clone of every cell's CellData with its formula string.
create_snapshot(g, strings, rows_, cols_) ==
    [c \in CellsOf(rows_, cols_) |-> [data |-> g[c], string |-> strings[c]]]

\* apply_snapshot: every cell the snapshot holds gets back its value, error,
\* dependents, function, dirty_parents and formula string.
apply_snapshot(g, strings, snapshot) ==
    [grid    |-> [c \in DOMAIN g |->
                     IF c \in DOMAIN snapshot
                     THEN [g[c] EXCEPT !.value = snapshot[c].data.value,
                                       !.error = snapshot[c].data.error,
                                       !.dependents = snapshot[c].data.dependents,
                                       !.function = snapshot[c].data.function,
                                       !.dirty_parents = snapshot[c].data.dirty_parents]
                     ELSE g[c]],
     strings |-> [c \in DOMAIN strings |->
                     IF c \in DOMAIN snapshot THEN snapshot[c].string ELSE strings[c]]]

\* apply_snapshot(create_snapshot()).
SnapshotRoundTrip ==
    /\ result # "Panic"
    /\ budget > 0
    /\ \E a \in {apply_snapshot(grid, formula_strings,
                                 create_snapshot(grid, formula_strings, rows, cols))} :
          /\ grid' = a.grid
          /\ formula_strings' = a.strings
    /\ result' = "Restored"
    /\ budget' = budget - 1
    /\ UNCHANGED << rows, cols, undo_stack, redo_stack, last, evaluated, out, top_left, do_print, pc >>

NextSnapshot ==
    \/ \E cell \in CellsOf(rows, cols), text \in Texts : SetCellValue(cell, text)
    \/ SnapshotRoundTrip

\* The program with snapshots taken and applied between the calls.
SpecSnapshot == Init /\ [][NextSnapshot]_vars

\* ------------------------------------------------ the program, undo and redo

\* The capacity of the undo stack (push_undo_state).
UndoCapacity == 100

\* push_undo_state: at capacity pop_front, then push_back the snapshot taken.
push_undo_state(undo, snapshot) ==
    Append(IF Len(undo) >= UndoCapacity THEN Tail(undo) ELSE undo, snapshot)

\* What undo_callback and redo_callback leave: [grid, strings, undo, redo].
Stacks(g, strings, undo, redo) ==
    [grid |-> g, strings |-> strings, undo |-> undo, redo |-> redo]

\* undo_callback that leaves the formula strings as they are.
undo_callback_cells_only(g, strings, undo, redo, rows_, cols_) ==
    IF undo = << >> THEN Stacks(g, strings, undo, redo)
    ELSE Stacks(apply_snapshot(g, strings, Last(undo)).grid, strings, Pop(undo),
                Append(redo, create_snapshot(g, strings, rows_, cols_)))

\* undo_callback: pop_back of the undo stack; the current state goes on the
\* redo stack and the popped snapshot is applied.
undo_callback(g, strings, undo, redo, rows_, cols_) ==
    IF undo = << >> THEN Stacks(g, strings, undo, redo)
    ELSE LET a == apply_snapshot(g, strings, Last(undo))
         IN  Stacks(a.grid, a.strings, Pop(undo),
                    Append(redo, create_snapshot(g, strings, rows_, cols_)))

\* redo_callback: pop_back of the redo stack; the current state goes on the
\* undo stack and the popped snapshot is applied.
redo_callback(g, strings, undo, redo, rows_, cols_) ==
    IF redo = << >> THEN Stacks(g, strings, undo, redo)
    ELSE LET a == apply_snapshot(g, strings, Last(redo))
         IN  Stacks(a.grid, a.strings,
                    Append(undo, create_snapshot(g, strings, rows_, cols_)),
                    Pop(redo))

\* The cell texts and the expressions of the edit commands "cell=expression".
UndoCells == { << "A", "1" >>, << "B", "1" >>, << "Z", "9" >> }

UndoTexts == { << "1" >>, << "2" >>, << "A", "1" >> }

CapacityCells == { << "A", "1" >>, << "Z", "9" >> }

CapacityTexts == { << "1" >>, << "2" >> }

\* The number of commands of a behaviour with undo and redo, and of one that
\* starts next to the capacity of the undo stack.
MaxUndoCalls == 4

MaxCapacityCalls == 5

\* Backend::new(MaxRows, MaxCols): both stacks empty.
InitUndo ==
    /\ rows = MaxRows
    /\ cols = MaxCols
    /\ grid = BackendNew(MaxRows, MaxCols)
    /\ formula_strings = NewStrings(MaxRows, MaxCols)
    /\ result = "New"
    /\ evaluated = << >>
    /\ last = [op |-> "new"]
    /\ out = [slept |-> 0]
    /\ top_left = MkCell(0, 0)
    /\ do_print = TRUE
    /\ pc = Idle
    /\ undo_stack = << >>
    /\ redo_stack = << >>
    /\ budget = MaxUndoCalls

\* The undo stack after n snapshots of the new backend were pushed, n below
\* the capacity.
Pushed(n) ==
    [i \in 1..n |-> create_snapshot(BackendNew(MaxRows, MaxCols),
                                    NewStrings(MaxRows, MaxCols), MaxRows, MaxCols)]

\* Backend::new(MaxRows, MaxCols) after UndoCapacity - 1 edit commands naming a
\* cell outside the grid: each took a snapshot and changed nothing.
InitCapacity ==
    /\ rows = MaxRows
    /\ cols = MaxCols
    /\ grid = BackendNew(MaxRows, MaxCols)
    /\ formula_strings = NewStrings(MaxRows, MaxCols)
    /\ result = "CouldNotParse"
    /\ evaluated = << >>
    /\ last = [op |-> "edit", grid |-> BackendNew(MaxRows, MaxCols),
               strings |-> NewStrings(MaxRows, MaxCols), done |-> TRUE]
    /\ out = [slept |-> 0]
    /\ top_left = MkCell(0, 0)
    /\ do_print = TRUE
    /\ pc = Idle
    /\ undo_stack = Pushed(UndoCapacity - 1)
    /\ redo_stack = << >>
    /\ budget = MaxCapacityCalls

\* One edit command "cell=expression" of Frontend::run_command (feature
\* "gui"): push_undo_state, then parse_cell_reference and set_cell_value, and
\* on Ok the formula string "=expression".
EditCommand(cell_str, text) ==
    /\ result # "Panic"
    /\ budget > 0
    /\ undo_stack' = push_undo_state(undo_stack,
                                     create_snapshot(grid, formula_strings, rows, cols))
    /\ \E c \in {parse_cell_reference(cell_str, rows, cols)} :
          IF ~c.some
          THEN /\ result' = "CouldNotParse"
               /\ evaluated' = << >>
               /\ out' = [slept |-> 0]
               /\ UNCHANGED << grid, formula_strings >>
          ELSE \E r \in {set_cell_value(grid, rows, cols, c.cell, text)} :
               \E o \in Outcomes(r) :
                   IF o = "Panic"
                   THEN /\ result' = "Panic"
                        /\ evaluated' = << >>
                        /\ out' = [slept |-> 0]
                        /\ UNCHANGED << grid, formula_strings >>
                   ELSE /\ result' = r.result
                        /\ evaluated' = r.order
                        /\ grid' = r.grid
                        /\ formula_strings' =
                               IF r.result = "Ok"
                               THEN [formula_strings EXCEPT ![c.cell] = << "=" >> \o text]
                               ELSE formula_strings
                        /\ out' = [slept |-> r.slept]
    /\ last' = [op |-> "edit", grid |-> grid, strings |-> formula_strings,
               done |-> TRUE]
    /\ budget' = budget - 1
    /\ UNCHANGED << rows, cols, top_left, do_print, pc, redo_stack >>

\* One call of Backend::undo_callback.
UndoCallback ==
    /\ result # "Panic"
    /\ budget > 0
    /\ \E u \in {undo_callback(grid, formula_strings, undo_stack, redo_stack, rows, cols)} :
          /\ grid' = u.grid
          /\ formula_strings' = u.strings
          /\ undo_stack' = u.undo
          /\ redo_stack' = u.redo
    /\ result' = "Undone"
    /\ last' = [op |-> "undo", grid |-> grid, strings |-> formula_strings,
               done |-> undo_stack # << >>]
    /\ budget' = budget - 1
    /\ UNCHANGED << rows, cols, evaluated, out, top_left, do_print, pc >>

\* One call of Backend::redo_callback.
RedoCallback ==
    /\ result # "Panic"
    /\ budget > 0
    /\ \E u \in {redo_callback(grid, formula_strings, undo_stack, redo_stack, rows, cols)} :
          /\ grid' = u.grid
          /\ formula_strings' = u.strings
          /\ undo_stack' = u.undo
          /\ redo_stack' = u.redo
    /\ result' = "Redone"
    /\ last' = [op |-> "redo", grid |-> grid, strings |-> formula_strings,
               done |-> redo_stack # << >>]
    /\ budget' = budget - 1
    /\ UNCHANGED << rows, cols, evaluated, out, top_left, do_print, pc >>

NextUndo ==
    \/ \E cell_str \in UndoCells, text \in UndoTexts : EditCommand(cell_str, text)
    \/ UndoCallback
    \/ RedoCallback

\* The program with edit commands, undo and redo.
SpecUndo == InitUndo /\ [][NextUndo]_vars

NextCapacity ==
    \/ \E cell_str \in CapacityCells, text \in CapacityTexts : EditCommand(cell_str, text)
    \/ UndoCallback
    \/ RedoCallback

\* The same program with the undo stack one snapshot below its capacity.
SpecCapacity == InitCapacity /\ [][NextCapacity]_vars

\* ------------------------------------------------------ the program, sort

SortFail == [ok |-> FALSE, top_left |-> MkCell(0, 0), bottom_right |-> MkCell(0, 0),
             ascending |-> FALSE, ovf |-> FALSE]

\* parse_sort: [ok, top_left, bottom_right, ascending, ovf].  The fifth
\* character selects the order, the range follows the sixth, and the corners
\* have to lie in one column, the top one first.
parse_sort(expression, rows_, cols_) ==
    LET Corners(tl, br, asc) ==
            IF ~tl.some THEN [SortFail EXCEPT !.ovf = tl.ovf]
            ELSE IF ~br.some THEN [SortFail EXCEPT !.ovf = br.ovf]
            ELSE IF tl.cell.row > br.cell.row \/ tl.cell.col # br.cell.col
            THEN SortFail
            ELSE [ok |-> TRUE, top_left |-> tl.cell, bottom_right |-> br.cell,
                  ascending |-> asc, ovf |-> FALSE]
        Range(range_str, sep, asc) ==
            IF sep = 0 THEN SortFail
            ELSE Corners(parse_cell_reference(SubSeq(range_str, 1, sep - 1), rows_, cols_),
                         parse_cell_reference(Drop(range_str, sep), rows_, cols_), asc)
        Content(content, end_pos, asc) ==
            IF end_pos = 0 THEN SortFail
            ELSE Range(SubSeq(content, 1, end_pos - 1),
                       Find(SubSeq(content, 1, end_pos - 1), ":"), asc)
        After(content, asc) == Content(content, Find(content, ")"), asc)
    IN  IF expression[5] \notin {"a", "d"} THEN SortFail
        ELSE After(Drop(expression, 6), expression[5] = "a")

\* The row that sort_by, a stable sort, moves to the place of row `to`: the
\* rows tl.row..=br.row are ordered by the value in column tl.col, ascending
\* or descending, rows with equal values keeping their order.
SortedFrom(g, tl, br, ascending, to) ==
    LET Key(r) == g[MkCell(r, tl.col)].value
        Less(a, b) == IF ascending THEN Key(a) < Key(b) ELSE Key(a) > Key(b)
        Place(r) == tl.row + Cardinality({ o \in tl.row..br.row :
                                             Less(o, r) \/ (~Less(r, o) /\ o < r) })
    IN  CHOOSE r \in tl.row..br.row : Place(r) = to

\* Backend::sort: the rows of the range, whole rows of CellData, are put in
\* the order of their values in the column of the range; [ok, grid, ovf].
sort(g, rows_, cols_, expression) ==
    LET Moved(p) ==
            [c \in DOMAIN g |->
                IF c.row \in p.top_left.row..p.bottom_right.row
                THEN g[MkCell(SortedFrom(g, p.top_left, p.bottom_right, p.ascending, c.row),
                              c.col)]
                ELSE g[c]]
        Parsed(p) ==
            IF p.ok THEN [ok |-> TRUE, grid |-> Moved(p), ovf |-> FALSE]
            ELSE [ok |-> FALSE, grid |-> g, ovf |-> p.ovf]
    IN  Parsed(parse_sort(expression, rows_, cols_))

\* The sort commands: both orders on each column, and ranges parse_sort
\* rejects (two columns, the corners inverted, no order).
SortCommands ==
    { << "s", "o", "r", "t", "a", "(", "A", "1", ":", "A", "2", ")" >>,
      << "s", "o", "r", "t", "d", "(", "A", "1", ":", "A", "2", ")" >>,
      << "s", "o", "r", "t", "a", "(", "B", "1", ":", "B", "2", ")" >>,
      << "s", "o", "r", "t", "d", "(", "B", "1", ":", "B", "2", ")" >>,
      << "s", "o", "r", "t", "a", "(", "A", "1", ":", "B", "2", ")" >>,
      << "s", "o", "r", "t", "a", "(", "A", "2", ":", "A", "1", ")" >>,
      << "s", "o", "r", "t", "x", "(", "A", "1", ":", "A", "2", ")" >> }

\* The expression texts of the calls made between the sorts.
SortTexts ==
    { << "1" >>,
      << "2" >>,
      << "A", "1" >>,
      << "A", "2" >>,
      << "B", "1", "+", "A", "2" >> }

\* One sort command of Frontend::run_frontend_command (feature "gui"):
\* push_undo_state, then Backend::sort.
SortCommand(cmd) ==
    /\ result # "Panic"
    /\ budget > 0
    /\ undo_stack' = push_undo_state(undo_stack,
                                     create_snapshot(grid, formula_strings, rows, cols))
    /\ \E r \in {sort(grid, rows, cols, cmd)} :
          \E o \in Outcomes([ovf |-> r.ovf, trap |-> FALSE]) :
              IF o = "Panic"
              THEN result' = "Panic" /\ UNCHANGED grid
              ELSE /\ grid' = r.grid
                   /\ result' = IF r.ok THEN "Sorted" ELSE "NotSorted"
    /\ last' = [cell |-> MkCell(0, 0), text |-> cmd]
    /\ budget' = budget - 1
    /\ evaluated' = << >>
    /\ out' = [slept |-> 0]
    /\ UNCHANGED << rows, cols, redo_stack, formula_strings, top_left, do_print, pc >>

NextSort ==
    \/ \E cell \in CellsOf(rows, cols), text \in SortTexts : SetCellValue(cell, text)
    \/ \E cmd \in SortCommands : SortCommand(cmd)

\* The program with sort commands between the calls of set_cell_value.
SpecSort == Init /\ [][NextSort]_vars

\* --------------------------------------------------------- the evaluator

\* The evaluator is exercised on a backend of EvalRows x EvalCols cells.
EvalRows == 3

EvalCols == 1

A3 == MkCell(2, 0)

\* The texts that give A1 and A2 their contents: constants over the i32 range
\* and two formulas whose evaluation fails (DivideByZero, Overflow).
EvalTexts ==
    { << "-", "2", "1", "4", "7", "4", "8", "3", "6", "4", "8" >>,
      << "-", "2", "1", "4", "7", "4", "8", "3", "6", "4", "7" >>,
      << "-", "6", "5", "5", "3", "6" >>,
      << "-", "7" >>,
      << "-", "1" >>,
      << "0" >>,
      << "1" >>,
      << "2" >>,
      << "5" >>,
      << "1", "0" >>,
      << "2", "0" >>,
      << "3", "0" >>,
      << "3", "2", "7", "6", "8" >>,
      << "4", "6", "3", "4", "1" >>,
      << "6", "5", "5", "3", "6" >>,
      << "2", "1", "4", "7", "4", "8", "3", "6", "4", "7" >>,
      << "5", "/", "0" >>,
      << "6", "5", "5", "3", "6", "*", "6", "5", "5", "3", "6" >> }

\* The texts that give A3 its content.
ThirdTexts ==
    { << "0" >>,
      << "5" >>,
      << "3", "0" >>,
      << "5", "/", "0" >> }

\* The functions evaluated: the four binary operations on (A1, A2) and on two
\* literals, the five aggregates over A1:A1, A1:A2 and A1:A3, and sleep on a
\* cell and on literals.
EvalFunctions ==
    { new_binary_op(t, OperandCell(MkCell(0, 0)), OperandCell(MkCell(1, 0))) :
          t \in {"Plus", "Minus", "Multiply", "Divide"} }
    \cup { new_binary_op(t, OperandInt(I32Max), OperandInt(2)) :
              t \in {"Plus", "Minus", "Multiply", "Divide"} }
    \cup { new_range_function(t, MkCell(0, 0), br) :
              t \in {"Min", "Max", "Sum", "Avg", "Stdev"},
              br \in {MkCell(0, 0), MkCell(1, 0), A3} }
    \cup { new_sleep_cell(MkCell(0, 0)), new_sleep(2), new_sleep(0), new_sleep(-2) }

\* Backend::new(EvalRows, EvalCols), then A1, A2 and A3 set by set_cell_value.
InitEval ==
    /\ rows = EvalRows
    /\ cols = EvalCols
    /\ \E t1 \in EvalTexts, t2 \in EvalTexts, t3 \in ThirdTexts :
          \E script \in {<< [cell |-> MkCell(0, 0), text |-> t1],
                             [cell |-> MkCell(1, 0), text |-> t2],
                             [cell |-> A3, text |-> t3] >>} :
              \E r \in {RunScript(script, EvalRows, EvalCols)} :
                  /\ grid = r.grid
                  /\ result = r.result
                  /\ evaluated = r.order
                  /\ last = script[3]
                  /\ formula_strings = StringsFrom(NewStrings(EvalRows, EvalCols),
                                                   script, 1, EvalRows, EvalCols)
                  /\ out = [slept |-> r.slept]
                  /\ top_left = MkCell(0, 0)
                  /\ undo_stack = << >>
                  /\ redo_stack = << >>
                  /\ do_print = TRUE
                  /\ pc = Idle
    /\ budget = 1

\* One call of Backend::evaluate_expression(func): the grid is only read.
EvaluateExpression(func) ==
    /\ result # "Panic"
    /\ budget > 0
    /\ \E e \in {evaluate_expression(grid, func)} :
          \E o \in Outcomes(e) :
              IF o = "Panic"
              THEN /\ result' = "Panic"
                   /\ out' = [slept |-> 0]
              ELSE /\ result' = "Evaluated"
                   /\ out' = [value |-> e.value, error |-> e.error, slept |-> e.slept]
    /\ last' = [func |-> func]
    /\ budget' = budget - 1
    /\ UNCHANGED << grid, rows, cols, undo_stack, redo_stack, evaluated, formula_strings, top_left, do_print, pc >>

NextEval == \E func \in EvalFunctions : EvaluateExpression(func)

SpecEval == InitEval /\ [][NextEval]_vars

\* ------------------------------------------------- the reference parser

\* The reference strings hold at most MaxRefLen characters.
MaxRefLen == 3

\* The characters the reference strings are made of.
RefChars == { "A", "B", "a", "0", "1", "2", "+" }

References == UNION { [1..n -> RefChars] : n \in 0..MaxRefLen }

\* The grid sizes the references are parsed for.
ParseRows == { 1, 2, 10 }

ParseCols == { 1, 2, 27 }

\* A backend of any of the sizes.
InitParse ==
    /\ rows \in ParseRows
    /\ cols \in ParseCols
    /\ grid = BackendNew(rows, cols)
    /\ result = "New"
    /\ evaluated = << >>
    /\ last = [cell |-> MkCell(0, 0), text |-> << >>]
    /\ budget = 1
    /\ formula_strings = NewStrings(rows, cols)
    /\ out = [slept |-> 0]
    /\ top_left = MkCell(0, 0)
    /\ undo_stack = << >>
    /\ redo_stack = << >>
    /\ do_print = TRUE
    /\ pc = Idle

\* One call of parse_cell_reference(reference, rows, cols).  The subtraction
\* `cell.row -= 1` on row 0 panics in a build with overflow checks.
ParseCellReference(reference) ==
    /\ result # "Panic"
    /\ budget > 0
    /\ \E p \in {parse_cell_reference(reference, rows, cols)} :
          \E o \in (IF p.ovf THEN {"Panic", "Return"} ELSE {"Return"}) :
              IF o = "Panic"
              THEN /\ result' = "Panic"
                   /\ out' = [some |-> FALSE]
              ELSE /\ result' = "Parsed"
                   /\ out' = [some |-> p.some, cell |-> p.cell]
    /\ last' = [reference |-> reference]
    /\ budget' = budget - 1
    /\ UNCHANGED << grid, rows, cols, undo_stack, redo_stack, evaluated, formula_strings, top_left, do_print, pc >>

NextParse == \E reference \in References : ParseCellReference(reference)

SpecParse == InitParse /\ [][NextParse]_vars

\* ------------------------------------------ the program, erroneous inputs

\* The texts of the cells read: values whose sum leaves the i32 range, the
\* divisor 0, and the two errors an evaluation produces.
PrecedenceTexts ==
    { << "0" >>,
      << "1" >>,
      << "2", "1", "4", "7", "4", "8", "3", "6", "4", "7" >>,
      << "5", "/", "0" >>,
      << "6", "5", "5", "3", "6", "*", "6", "5", "5", "3", "6" >> }

\* The functions evaluated: the binary operations over two cells in either
\* order, MIN, MAX, SUM and AVG over the first row and over the four cells.
PrecedenceFunctions ==
    { new_binary_op(t, OperandCell(MkCell(0, 0)), OperandCell(MkCell(0, 1))) :
          t \in {"Plus", "Minus", "Multiply", "Divide"} }
    \cup { new_binary_op(t, OperandCell(MkCell(0, 1)), OperandCell(MkCell(0, 0))) :
              t \in {"Plus", "Minus", "Multiply", "Divide"} }
    \cup { new_range_function(t, MkCell(0, 0), br) :
              t \in {"Min", "Max", "Sum", "Avg"},
              br \in {MkCell(0, 1), MkCell(1, 1)} }

\* Backend::new(MaxRows, MaxCols), then A1, B1, A2 and B2 set by set_cell_value.
InitPrecedence ==
    /\ rows = MaxRows
    /\ cols = MaxCols
    /\ \E t1 \in PrecedenceTexts, t2 \in PrecedenceTexts,
          t3 \in PrecedenceTexts, t4 \in PrecedenceTexts :
        \E r1 \in {set_cell_value(BackendNew(MaxRows, MaxCols), MaxRows, MaxCols,
                                  MkCell(0, 0), t1)} :
        \E r2 \in {set_cell_value(r1.grid, MaxRows, MaxCols, MkCell(0, 1), t2)} :
        \E r3 \in {set_cell_value(r2.grid, MaxRows, MaxCols, MkCell(1, 0), t3)} :
        \E r4 \in {set_cell_value(r3.grid, MaxRows, MaxCols, MkCell(1, 1), t4)} :
            /\ grid = r4.grid
            /\ result = r4.result
            /\ evaluated = r4.order
            /\ last = [cell |-> MkCell(1, 1), text |-> t4]
            /\ formula_strings =
                   StringsAfter(
                       StringsAfter(
                           StringsAfter(
                               StringsAfter(NewStrings(MaxRows, MaxCols),
                                            r1, MkCell(0, 0), t1),
                               r2, MkCell(0, 1), t2),
                           r3, MkCell(1, 0), t3),
                       r4, MkCell(1, 1), t4)
            /\ out = [slept |-> r4.slept]
    /\ top_left = MkCell(0, 0)
    /\ undo_stack = << >>
    /\ redo_stack = << >>
    /\ do_print = TRUE
    /\ pc = Idle
    /\ budget = 1

NextPrecedence == \E func \in PrecedenceFunctions : EvaluateExpression(func)

SpecPrecedence == InitPrecedence /\ [][NextPrecedence]_vars

\* ------------------------------------------- the program, reference texts

\* Range texts the parser has to reject: the corners inverted in both
\* dimensions, in the column only, in the row only; a corner beyond the last
\* row and column, as bottom right and as top left.
RejectedRangeTexts ==
    { << "S", "U", "M", "(", "B", "2", ":", "A", "1", ")" >>,
      << "S", "U", "M", "(", "B", "1", ":", "A", "1", ")" >>,
      << "M", "I", "N", "(", "A", "2", ":", "A", "1", ")" >>,
      << "S", "U", "M", "(", "A", "1", ":", "Z", "9", ")" >>,
      << "M", "A", "X", "(", "Z", "9", ":", "A", "1", ")" >> }

\* The texts given to set_cell_value: constants, references and ranges inside
\* the grid, references outside it, row 0, and the rejected range texts.
ReferenceTexts ==
    { << "5" >>,
      << "A", "1" >>,
      << "B", "2", "+", "A", "1" >>,
      << "S", "U", "M", "(", "A", "1", ":", "B", "2", ")" >>,
      << "M", "A", "X", "(", "B", "1", ":", "B", "2", ")" >>,
      << "Z", "9" >>,
      << "A", "1", "+", "Z", "9" >>,
      << "S", "U", "M", "(", "A", "0", ":", "B", "1", ")" >> }
    \cup RejectedRangeTexts

NextReferences ==
    \E cell \in CellsOf(rows, cols), text \in ReferenceTexts : SetCellValue(cell, text)

SpecReferences == Init /\ [][NextReferences]_vars

\* ------------------------------------------------------------- properties

Cells == CellsOf(rows, cols)

\* The cells of a dependents list, and how often one occurs in it.
Members(deps) == { deps[i] : i \in 1..Len(deps) }

Count(deps, c) == Cardinality({ i \in 1..Len(deps) : deps[i] = c })

\* The cells a formula references directly: its cell operands, its sleep
\* operand, the cells of its range rectangle; none for a constant.
Refs(func) ==
    CASE func.data.tag = "BinaryOp" ->
             { o.cell : o \in { x \in {func.data.first, func.data.second} :
                                   x.type_ = "Cell" } }
      [] func.data.tag = "RangeFunction" ->
             { MkCell(r, c) :
                   r \in func.data.top_left.row..func.data.bottom_right.row,
                   c \in func.data.top_left.col..func.data.bottom_right.col }
      [] func.data.tag = "SleepValue" ->
             IF func.data.operand.type_ = "Cell" THEN {func.data.operand.cell} ELSE {}
      [] func.data.tag = "Value" -> {}

\* The cells reachable from c by one or more dependents edges of the grid g.
RECURSIVE Closure(_, _)
Closure(g, S) ==
    LET N == S \cup UNION { Members(g[c].dependents) : c \in S }
    IN  IF N = S THEN S ELSE Closure(g, N)

Reachable(g, c) == Closure(g, Members(g[c].dependents))

A1 == MkCell(0, 0)

B1 == MkCell(0, 1)

A2 == MkCell(1, 0)

B2 == MkCell(1, 1)

RejectedCycleRestoresGrid ==
    [][ (/\ result' = "CircularDependency"
         /\ ~SelfReference(parse_expression(last'.text, rows, cols).func, last'.cell))
        => \A c \in Cells :
              /\ grid'[c].function = grid[c].function
              /\ grid'[c].value = grid[c].value
              /\ grid'[c].error = grid[c].error
              /\ \A d \in Cells :
                    Count(grid'[c].dependents, d) = Count(grid[c].dependents, d)
      ]_vars

\* C3, its case: the refused formula was for a cell that holds a formula with
\* incoming edges of its own, which the rollback had to restore.
RollbackOfFormulaCell ==
    /\ result = "CircularDependency"
    /\ ~SelfReference(parse_expression(last.text, rows, cols).func, last.cell)
    /\ Refs(grid[last.cell].function) # {}
    /\ \A t \in Refs(grid[last.cell].function) :
          last.cell \in Members(grid[t].dependents)

\* C4: set_cell_value(C, f) with a non-constant f that references C itself (a
\* binary operand, the sleep operand, a cell of the range) returns
\* Err(CircularDependency) and leaves every field of every cell, the traversal
\* marker included, as it was.
SelfReferenceRejected ==
    [][ \A p \in {parse_expression(last'.text, rows, cols)} :
            (/\ p.success
             /\ p.func.type_ # "Constant"
             /\ last'.cell \in Refs(p.func))
            => (result' = "CircularDependency" /\ grid' = grid)
      ]_vars

\* C4, its case: a range holding its own cell was refused for a cell that other
\* cells' lists already name.
SelfRangeRejected ==
    /\ result = "CircularDependency"
    /\ last.text = << "S", "U", "M", "(", "A", "1", ":", "B", "1", ")" >>
    /\ last.cell = B1
    /\ Len(grid[A1].dependents) >= 2

\* C5: for every text the parser rejects (the empty text, a cell reference
\* that is malformed or out of the grid, a range with unordered corners),
\* set_cell_value returns Err(CouldNotParse) and changes no field of any cell.
RejectedTextReturnsCouldNotParse ==
    [][ \A p \in {parse_expression(last'.text, rows, cols)} :
            ~p.success => (result' = "CouldNotParse" /\ grid' = grid)
      ]_vars

\* C6: X is in Y.dependents exactly when X's installed formula references Y
\* directly; a range contributes every cell of its rectangle, a constant none.
DependentsMatchFormulas ==
    \A X \in Cells : \A Y \in Cells :
        X \in Members(grid[Y].dependents) <=> Y \in Refs(grid[X].function)

\* C6, its case: a range formula, an operand formula and a sleep formula stand
\* side by side after a successful call.
RangeAndOperandEdges ==
    /\ result = "Ok"
    /\ \E X \in Cells : grid[X].function.data.tag = "RangeFunction"
    /\ \E X \in Cells : grid[X].function.data.tag = "BinaryOp"
    /\ \E X \in Cells : grid[X].function.data.tag = "SleepValue"

\* C7: whenever set_cell_value has returned, Ok or Err, every cell's value and
\* error are what evaluating its formula against the grid gives.
GridSettled ==
    result # "Panic" =>
        \A c \in Cells :
            \A e \in {evaluate_expression(grid, grid[c].function)} :
                grid[c].value = e.value /\ grid[c].error = e.error

\* C7, its case: an error installed in one cell has reached, through the
\* propagation, a cell that references it.
ErrorPropagated ==
    /\ result = "Ok"
    /\ evaluated # << >>
    /\ grid[last.cell].error = "DivideByZero"
    /\ \E d \in Members(evaluated) :
          last.cell \in Refs(grid[d].function) /\ grid[d].error # "NoError"

\* C8: the propagation of a successful set_cell_value(C, ..) evaluates every
\* cell reachable from C exactly once, each after every one of its predecessors
\* that is reachable from C.  Instance (the diamond A1 = 1, B1 = A1, A2 = A1,
\* B2 = B1 + A2): set_cell_value(A1, "5") evaluates B1, A2 and B2 once each and
\* leaves B2 = 10.
PropagationOnceInOrder ==
    [][ /\ result' = "Ok" =>
              \A R \in {Reachable(grid', last'.cell)} :
                  /\ Members(evaluated') = R
                  /\ Len(evaluated') = Cardinality(R)
                  /\ \A i \in 1..Len(evaluated') :
                        \A q \in Refs(grid'[evaluated'[i]].function) \cap R :
                            \E j \in 1..(i - 1) : evaluated'[j] = q
        /\ (/\ grid[A1].function = new_constant(1)
            /\ grid[B1].function = new_binary_op("Plus", OperandCell(A1), OperandInt(0))
            /\ grid[A2].function = new_binary_op("Plus", OperandCell(A1), OperandInt(0))
            /\ grid[B2].function = new_binary_op("Plus", OperandCell(B1), OperandCell(A2))
            /\ last' = [cell |-> A1, text |-> << "5" >>]
            /\ result' # "Panic")
           => (/\ result' = "Ok"
               /\ \A d \in {B1, A2, B2} : Count(evaluated', d) = 1
               /\ grid'[B2].value = 10)
      ]_vars

\* C8, its case: the diamond after set_cell_value(A1, "5").
DiamondRecomputed ==
    /\ result = "Ok"
    /\ last = [cell |-> A1, text |-> << "5" >>]
    /\ grid[B1].function = new_binary_op("Plus", OperandCell(A1), OperandInt(0))
    /\ grid[A2].function = new_binary_op("Plus", OperandCell(A1), OperandInt(0))
    /\ grid[B2].function = new_binary_op("Plus", OperandCell(B1), OperandCell(A2))
    /\ Len(evaluated) = 3
    /\ grid[B2].value = 10

\* C9: a successful set_cell_value(C, ..) changes the formula of no cell but C,
\* the dependents of no cell but those C's old or new formula references, and
\* the value and error of no cell but C and the cells reachable from C.
SuccessfulCallFrame ==
    [][ result' = "Ok" =>
            \A c \in Cells :
                /\ c # last'.cell => grid'[c].function = grid[c].function
                /\ c \notin (Refs(grid[last'.cell].function)
                                \cup Refs(grid'[last'.cell].function))
                      => grid'[c].dependents = grid[c].dependents
                /\ c \notin ({last'.cell} \cup Reachable(grid', last'.cell))
                      => (grid'[c].value = grid[c].value /\ grid'[c].error = grid[c].error)
      ]_vars

\* C9, its case: the call replaced a formula by another, recomputed a cell that
\* depends on it and left a cell outside both, holding a formula, untouched.
FrameWithBystander ==
    /\ result = "Ok"
    /\ Refs(grid[last.cell].function) # {}
    /\ evaluated # << >>
    /\ \E c \in Cells :
          /\ c \notin ({last.cell} \cup Reachable(grid, last.cell))
          /\ c \notin Refs(grid[last.cell].function)
          /\ grid[c].function.type_ # "Constant"

\* C10: for every cell, in every reachable state and for every integer
\* constant v, set_cell_value(cell, v) returns Ok and leaves the cell with the
\* formula Constant(v), the value v and NoError.
ConstantAlwaysOk ==
    [][ \A p \in {parse_expression(last'.text, rows, cols)} :
            (p.success /\ p.func.type_ = "Constant")
            => (/\ result' = "Ok"
                /\ grid'[last'.cell].function = p.func
                /\ grid'[last'.cell].value = p.func.data.value
                /\ grid'[last'.cell].error = "NoError")
      ]_vars

\* C11: set_cell_value(C, f) with a formula f that parses, does not reference C
\* and closes no cycle returns Ok whatever the stored operand values are: the
\* call does not abort, C's error is the error of f's evaluation, and C's value
\* is 0 when that error is not NoError.
ValidFormulaAlwaysOk ==
    [][ \A p \in {parse_expression(last'.text, rows, cols)} :
            (/\ p.success /\ ~p.ovf
             /\ p.func.type_ # "Constant"
             /\ last'.cell \notin Refs(p.func)
             /\ Refs(p.func) \cap Reachable(grid, last'.cell) = {})
            => (/\ result' = "Ok"
                /\ grid'[last'.cell].error = evaluate_expression(grid', p.func).error
                /\ grid'[last'.cell].error # "NoError" => grid'[last'.cell].value = 0)
      ]_vars

Evaluation == result \in {"Evaluated", "Panic"}

\* The error and the value an operand resolves to.
OperandError(operand) ==
    IF operand.type_ = "Cell" THEN grid[operand.cell].error ELSE "NoError"

OperandValue(operand) ==
    IF operand.type_ = "Cell" THEN grid[operand.cell].value ELSE operand.value

\* Both operands of the binary operation last.func are free of errors.
OperandsErrorFree ==
    /\ OperandError(last.func.data.first) = "NoError"
    /\ OperandError(last.func.data.second) = "NoError"

\* C13: Multiply on error-free operands a, b whose product lies outside the
\* i32 range evaluates to the error Overflow (it neither aborts nor returns a
\* wrapped value); so does 2147483647 * 2.
MultiplyReportsOverflow ==
    (Evaluation /\ last.func.type_ = "Multiply" /\ OperandsErrorFree
        /\ MulOverflows(OperandValue(last.func.data.first),
                        OperandValue(last.func.data.second)))
    => (result = "Evaluated" /\ out.error = "Overflow")

\* C14: Divide on error-free operands a, b yields DivideByZero when b = 0 and
\* otherwise the quotient q of a by b truncated toward zero with NoError:
\* a = q * b + r with |r| < |b| and r = 0 or r of a's sign.
DivideTruncatesTowardZero ==
    (Evaluation /\ last.func.type_ = "Divide" /\ OperandsErrorFree)
    => \A a \in {OperandValue(last.func.data.first)},
          b \in {OperandValue(last.func.data.second)} :
           /\ result = "Evaluated"
           /\ IF b = 0 THEN out.error = "DivideByZero"
              ELSE /\ out.error = "NoError"
                   /\ ~MulOverflows(out.value, b)
                   /\ \A r \in {a - (out.value * b)} :
                         /\ a >= 0 => r >= 0
                         /\ a <= 0 => r <= 0
                         /\ b > 0 => (r < b /\ r > -b)
                         /\ b < 0 => (r > b /\ -r > b)

\* C15: Plus and Minus on error-free operands complete with NoError for all
\* operand values, also when the sum or difference leaves the i32 range.
PlusMinusComplete ==
    (Evaluation /\ last.func.type_ \in {"Plus", "Minus"} /\ OperandsErrorFree)
    => (result = "Evaluated" /\ out.error = "NoError")

\* The cells of the range of last.func are free of errors.
RangeErrorFree == \A c \in Refs(last.func) : grid[c].error = "NoError"

\* The sum of a sequence of i32 values as the integer q * 65536 + r with
\* 0 <= r < 65536: [q, r].  No intermediate result leaves 32 bits.
BigSum(values) ==
    LET f[i \in 0..Len(values)] ==
            IF i = 0 THEN [hi |-> 0, lo |-> 0]
            ELSE [hi |-> f[i - 1].hi + (values[i] \div 65536),
                  lo |-> f[i - 1].lo + (values[i] % 65536)]
        Normal(t) == [q |-> t.hi + (t.lo \div 65536), r |-> t.lo % 65536]
    IN  Normal(f[Len(values)])

\* floor(t / n) and the remainder, for t = [q, r] as above and n > 0: [quot, rem].
BigDiv(t, n) ==
    LET With(w) == [quot |-> ((t.q \div n) * 65536) + (w \div n), rem |-> w % n]
    IN  With(((t.q % n) * 65536) + t.r)

\* t / n truncated toward zero.
BigTruncDiv(t, n) ==
    LET With(d) == IF t.q < 0 /\ d.rem # 0 THEN d.quot + 1 ELSE d.quot
    IN  With(BigDiv(t, n))

\* The values of the cells of the range of func, row by row.
RangeValues(func) ==
    LET cells == RangeSeq(func.data.top_left, func.data.bottom_right)
    IN  [i \in 1..Len(cells) |-> grid[cells[i]].value]

\* C16: over a range of error-free cells MIN evaluates to the smallest value,
\* MAX to the largest, SUM to the sum of the values and AVG to the sum divided
\* by the number of cells, truncated toward zero, each with NoError (over
\* {10, 20, 5}: 5, 20, 35, 11).
AggregatesOverErrorFreeRange ==
    (Evaluation /\ last.func.type_ \in {"Min", "Max", "Sum", "Avg"} /\ RangeErrorFree)
    => \A values \in {RangeValues(last.func)} :
           /\ result = "Evaluated"
           /\ out.error = "NoError"
           /\ last.func.type_ = "Min" =>
                  /\ \E i \in 1..Len(values) : out.value = values[i]
                  /\ \A i \in 1..Len(values) : out.value <= values[i]
           /\ last.func.type_ = "Max" =>
                  /\ \E i \in 1..Len(values) : out.value = values[i]
                  /\ \A i \in 1..Len(values) : out.value >= values[i]
           /\ last.func.type_ = "Sum" =>
                  BigSum(values) = [q |-> out.value \div 65536, r |-> out.value % 65536]
           /\ last.func.type_ = "Avg" =>
                  out.value = BigTruncDiv(BigSum(values), Len(values))
           /\ values = << 10, 20, 5 >> =>
                  out.value = CASE last.func.type_ = "Min" -> 5
                                [] last.func.type_ = "Max" -> 20
                                [] last.func.type_ = "Sum" -> 35
                                [] last.func.type_ = "Avg" -> 11

\* Whether r * (r - 1) + 1/4 <= t / n for t = [q, r] and n > 0, that is
\* whether r - 1/2 <= sqrt(t / n).
HalfBelowRoot(r, t, n) ==
    LET With(d) == r * (r - 1) < d.quot \/ (r * (r - 1) = d.quot /\ n <= 4 * d.rem)
    IN  r = 0 \/ With(BigDiv(t, n))

\* C17: over a range of error-free cells STDEV evaluates with NoError to
\* round(sqrt(V)), m being the sum of the values divided by their number,
\* truncated, and V the mean of the squares (value - m)^2; the value is
\* compared where these squares are i32 values.  A single cell yields 0 and
\* {10, 20, 30} yields 8.
StdevOverErrorFreeRange ==
    (Evaluation /\ last.func.type_ = "Stdev" /\ RangeErrorFree)
    => \A values \in {RangeValues(last.func)} :
         \A m \in {BigTruncDiv(BigSum(values), Len(values))} :
           /\ result = "Evaluated"
           /\ out.error = "NoError"
           /\ (\A i \in 1..Len(values) :
                  /\ ~SubOverflows(values[i], m)
                  /\ ~MulOverflows(values[i] - m, values[i] - m))
              => \A t \in {BigSum([i \in 1..Len(values) |->
                                       (values[i] - m) * (values[i] - m)])} :
                     /\ out.value \in 0..46340
                     /\ HalfBelowRoot(out.value, t, Len(values))
                     /\ ~HalfBelowRoot(out.value + 1, t, Len(values))
           /\ Len(values) = 1 => out.value = 0
           /\ values = << 10, 20, 30 >> => out.value = 8

\* C18: evaluating Sleep{operand}: when the operand is a cell holding an error
\* e, the result is the error e and the thread is not blocked; otherwise the
\* result is (v, NoError) for the operand's value v, positive, zero or
\* negative, and the thread is blocked for v seconds when v > 0 and not at all
\* otherwise.
SleepEvaluates ==
    (Evaluation /\ last.func.type_ = "Sleep")
    => \A operand \in {last.func.data.operand} :
           /\ result = "Evaluated"
           /\ IF OperandError(operand) # "NoError"
              THEN /\ out.error = OperandError(operand)
                   /\ out.slept = 0
              ELSE /\ out.value = OperandValue(operand)
                   /\ out.error = "NoError"
                   /\ OperandValue(operand) > 0 => out.slept = OperandValue(operand)
                   /\ OperandValue(operand) <= 0 => out.slept = 0

\* C18, its case: Sleep on a cell holding a negative value has been evaluated.
SleepOnNegativeCell ==
    /\ result = "Evaluated"
    /\ last.func = new_sleep_cell(A1)
    /\ grid[A1].error = "NoError"
    /\ grid[A1].value < 0
    /\ out = [value |-> grid[A1].value, error |-> "NoError", slept |-> 0]

\* C19: in every reachable state apply_snapshot(create_snapshot()) leaves the
\* grid as it was: every cell's value, error, formula, dependents, traversal
\* marker and formula string are the same before and after.
SnapshotRoundTripIdentity ==
    [][ result' = "Restored" =>
            \A c \in Cells :
                /\ grid'[c].value = grid[c].value
                /\ grid'[c].error = grid[c].error
                /\ grid'[c].function = grid[c].function
                /\ grid'[c].dependents = grid[c].dependents
                /\ grid'[c].dirty_parents = grid[c].dirty_parents
                /\ formula_strings'[c] = formula_strings[c]
      ]_vars

\* C19, its case: a snapshot was taken and applied on a grid that holds
\* dependents, an error and the strings of a constant and of a formula.
SnapshotOfBusyGrid ==
    /\ result = "Restored"
    /\ \E c \in Cells : Len(grid[c].dependents) >= 2
    /\ \E c \in Cells : grid[c].error # "NoError"
    /\ \E c, d \in Cells :
          /\ grid[c].function.type_ = "Constant" /\ formula_strings[c] = << "=", "1" >>
          /\ grid[d].function.type_ # "Constant" /\ formula_strings[d] = << "A", "1" >>

\* The number a string of digits writes in base 10, and the number a string of
\* uppercase letters writes in the bijective base 26 (A = 1, .., Z = 26).
Base10(digits) ==
    LET f[i \in 0..Len(digits)] ==
            IF i = 0 THEN 0 ELSE (f[i - 1] * 10) + DigitVal(digits[i])
    IN  f[Len(digits)]

Base26(letters) ==
    LET f[i \in 0..Len(letters)] ==
            IF i = 0 THEN 0 ELSE (f[i - 1] * 26) + LetterVal(letters[i])
    IN  f[Len(letters)]

\* reference is k uppercase letters followed by one or more digits.
LettersThenDigits(reference, k) ==
    /\ k \in 1..(Len(reference) - 1)
    /\ \A i \in 1..k : reference[i] \in Upper
    /\ \A i \in (k + 1)..Len(reference) : reference[i] \in Digit

\* C20: parse_cell_reference returns without aborting for every reference and
\* every grid size; it returns Some(cell) only when the reference is one or
\* more uppercase letters followed by one or more digits and cell is the
\* 0-based (row, col) they write, inside the grid; every other reference
\* (malformed, beyond the grid, row number 0) yields None.
ReferenceParsesOrNone ==
    result \in {"Parsed", "Panic"} =>
        /\ result = "Parsed"
        /\ out.some =>
              \E k \in 1..Len(last.reference) :
                  /\ LettersThenDigits(last.reference, k)
                  /\ out.cell.row = Base10(Drop(last.reference, k)) - 1
                  /\ out.cell.col = Base26(SubSeq(last.reference, 1, k)) - 1
                  /\ out.cell.row >= 0 /\ out.cell.row < rows
                  /\ out.cell.col >= 0 /\ out.cell.col < cols

\* C21: set_cell_value accepts the expression texts of its documentation, which
\* carry a leading '=' (and spaces around the operator): where the same text
\* without the '=' and the spaces is installed and returns Ok, so is the
\* documented text, with the same formula; it never returns CouldNotParse.
DocumentedTextAccepted ==
    [][ last'.text \in DocumentedTexts
        => \A plain \in {SelectSeq(last'.text, LAMBDA ch : ch \notin {"=", " "})} :
              \A r \in {set_cell_value(grid, rows, cols, last'.cell, plain)} :
                  /\ result' # "CouldNotParse"
                  /\ r.result = "Ok"
                     => /\ result' = "Ok"
                        /\ grid'[last'.cell].function = r.grid[last'.cell].function
      ]_vars

\* C23: scrolling.  'w'/'a' take MAX_WIDTH from top_left.row/col, stopping at
\* 0; 's'/'d' add MAX_WIDTH when top_left + 2 * MAX_WIDTH <= rows/cols and
\* set it to rows - MAX_WIDTH / cols - MAX_WIDTH otherwise; so after 's'/'d'
\* top_left is at most size - MAX_WIDTH and after 'w'/'a' at least 0, and the
\* other coordinate stays.
ViewportScrollsClamped ==
    [][ \A cmd \in {Trim(last'.input)} :
          LET Back(at, to) ==
                  /\ to = IF at >= MAX_WIDTH THEN at - MAX_WIDTH ELSE 0
                  /\ to >= 0
              Forward(at, to, size) ==
                  /\ to = IF at + 2 * MAX_WIDTH <= size THEN at + MAX_WIDTH
                          ELSE size - MAX_WIDTH
                  /\ to >= 0
                  /\ to <= size - MAX_WIDTH
          IN  /\ cmd = << "w" >>
                 => Back(top_left.row, top_left'.row) /\ top_left'.col = top_left.col
              /\ cmd = << "a" >>
                 => Back(top_left.col, top_left'.col) /\ top_left'.row = top_left.row
              /\ cmd = << "s" >>
                 => /\ Forward(top_left.row, top_left'.row, rows)
                    /\ top_left'.col = top_left.col
              /\ cmd = << "d" >>
                 => /\ Forward(top_left.col, top_left'.col, cols)
                    /\ top_left'.row = top_left.row
      ]_vars

\* reference names a cell of a rows_ x cols_ grid.
InGrid(reference, rows_, cols_) ==
    \E k \in 1..Len(reference) :
        /\ LettersThenDigits(reference, k)
        /\ Base10(Drop(reference, k)) \in 1..rows_
        /\ Base26(SubSeq(reference, 1, k)) \in 1..cols_

\* The commands of the frontend that are no scroll_to.
PlainCommands ==
    { << "w" >>, << "s" >>, << "a" >>, << "d" >>, << "q" >>,
      << "d", "i", "s", "a", "b", "l", "e", "_", "o", "u", "t", "p", "u", "t" >>,
      << "e", "n", "a", "b", "l", "e", "_", "o", "u", "t", "p", "u", "t" >> }

\* C22: process_command reports "ok" exactly when the command was applied.  An
\* empty input is "ok" and changes nothing; a cell assignment <ref>=<expr> is
\* "ok" exactly when <ref> is in the grid and set_cell_value returns Ok; an
\* unrecognised command and a scroll_to with an invalid target are "err";
\* every "err" leaves the cells' values, errors and formulas and the viewport
\* as they were.
StatusReportsApplication ==
    [][ \A cmd \in {Trim(last'.input)} :
          LET eq_pos == Find(cmd, "=")
              Assignment == cmd # << >> /\ cmd[1] \in Upper /\ eq_pos > 0
              Target == Trim(TrimStartMatches(cmd, ScrollTo))
              Unrecognised ==
                  /\ cmd # << >>
                  /\ ~Assignment
                  /\ cmd \notin PlainCommands
                  /\ ~StartsWith(cmd, ScrollTo)
              Same ==
                  /\ top_left' = top_left
                  /\ \A c \in CellsOf(rows, cols) :
                        /\ grid'[c].value = grid[c].value
                        /\ grid'[c].error = grid[c].error
                        /\ grid'[c].function = grid[c].function
              Reports(status) == result' = "Processed" /\ out'.status = status
          IN  /\ cmd = << >> => Reports("ok") /\ Same
              /\ Unrecognised => Reports("err")
              /\ (StartsWith(cmd, ScrollTo) /\ ~InGrid(Target, rows, cols))
                 => Reports("err")
              /\ (Assignment /\ ~InGrid(SubSeq(cmd, 1, eq_pos - 1), rows, cols))
                 => Reports("err")
              /\ (Assignment /\ InGrid(SubSeq(cmd, 1, eq_pos - 1), rows, cols)
                  /\ result' = "Processed")
                 => \A p \in {parse_cell_reference(SubSeq(cmd, 1, eq_pos - 1),
                                                   rows, cols)} :
                       (out'.status = "ok")
                       <=> (set_cell_value(grid, rows, cols, p.cell,
                                           Drop(cmd, eq_pos)).result = "Ok")
              /\ (result' = "Processed" /\ out'.status = "err") => Same
      ]_vars

\* C24: when check_circular_dependency(start) has returned, with a cycle found
\* or not, dirty_parents is 0 on every cell.
MarkersClearedAfterCheck ==
    (pc.at = "checked" \/ result = "Checked")
    => \A c \in CellsOf(rows, cols) : grid[c].dirty_parents = 0

\* The check of a call has found a cycle and stopped while another cell was
\* still marked.
CycleFoundWithMarkedCells ==
    /\ pc.at = "checked"
    /\ pc.found
    /\ \E c \in CellsOf(rows, cols) \ {pc.cell} :
          CycleLoop([grid EXCEPT ![pc.cell].dirty_parents = 1], << pc.cell >>,
                    pc.cell).grid[c].dirty_parents > 0

\* C25: set_cell_value with a formula that is no constant installs the new
\* formula, then replaces the edges, then checks for a cycle, and only after
\* the check returned false evaluates and propagates: until then no cell's
\* value or error is written, and a call that evaluates has passed the check.
CycleCheckBeforeEvaluation ==
    /\ pc.at \in {"installed", "linked", "checked", "reverted"}
       => /\ \A c \in CellsOf(rows, cols) :
                /\ grid[c].value = pc.before[c].value
                /\ grid[c].error = pc.before[c].error
          /\ pc.at = "installed"
             => /\ grid[pc.cell].function = pc.new_function
                /\ \A c \in CellsOf(rows, cols) :
                      grid[c].dependents = pc.before[c].dependents
          /\ pc.at \in {"linked", "checked"}
             => /\ grid[pc.cell].function = pc.new_function
                /\ \A c \in CellsOf(rows, cols) :
                      pc.cell \in Members(grid[c].dependents)
                      <=> c \in Refs(pc.new_function)
    /\ (pc.at = "evaluated" /\ pc.new_function.type_ # "Constant")
       => /\ ~pc.found
          /\ ~check_circular_dependency(grid, pc.cell).found
          /\ pc.cell \notin Reachable(grid, pc.cell)

\* A formula over another cell has passed the check and its value has just
\* been written.
ValueWrittenAfterCheck ==
    /\ pc.at = "evaluated"
    /\ pc.new_function.type_ # "Constant"
    /\ pc.old_function.type_ # "Constant"
    /\ grid[pc.cell].value # pc.before[pc.cell].value

\* C26: after set_dirty_parents(root) on an acyclic graph whose markers are 0,
\* every cell reachable from root over dependents edges carries the number of
\* dependents-list entries naming it in the lists of root and of the reachable
\* cells (counted with multiplicity), every other cell carries 0, and root and
\* each reachable cell have been expanded exactly once.
DirtyParentsCountEntries ==
    pc.at = "marked"
    => \A R \in {Reachable(grid, pc.cell)} :
          /\ \A c \in CellsOf(rows, cols) :
                grid[c].dirty_parents =
                    IF c \in R
                    THEN Cardinality({ e \in (R \cup {pc.cell}) \X (1..(rows * cols * 2)) :
                                          /\ e[2] <= Len(grid[e[1]].dependents)
                                          /\ grid[e[1]].dependents[e[2]] = c })
                    ELSE 0
          /\ \A c \in CellsOf(rows, cols) :
                Count(pc.expanded, c) = IF c \in R \cup {pc.cell} THEN 1 ELSE 0

\* The markers of a diamond: a cell counted twice, from two parents that are
\* both reachable from root.
DiamondMarked ==
    /\ pc.at = "marked"
    /\ \E c, p, q \in CellsOf(rows, cols) :
          /\ p # q
          /\ grid[c].dirty_parents = 2
          /\ c \in Members(grid[p].dependents) /\ c \in Members(grid[q].dependents)
          /\ {p, q} \subseteq Reachable(grid, pc.cell)

\* C27: update_graph undoes itself.  update_graph(cell, f) called while the
\* cell holds f leaves the membership of every dependents list as it was; and
\* when a call that installed a new formula over an old one is rejected, the
\* revert to the old formula followed by update_graph(cell, new) leaves every
\* dependents list with the members it had before the call, also when the old
\* and the new formula reference a common cell.
UpdateGraphUndoesItself ==
    [][ /\ result' = "Relinked"
           => \A c \in CellsOf(rows, cols) :
                 Members(grid'[c].dependents) = Members(grid[c].dependents)
        /\ (pc.at = "reverted" /\ pc' = Idle)
           => \A c \in CellsOf(rows, cols) :
                 /\ Members(grid'[c].dependents) = Members(pc.before[c].dependents)
                 /\ \A d \in CellsOf(rows, cols) :
                       Count(grid'[c].dependents, d) = Count(pc.before[c].dependents, d)
      ]_vars

\* A rejected call whose new formula shares a referenced cell with the old
\* formula that was put back.
RevertedOverCommonCell ==
    /\ result = "CircularDependency"
    /\ pc = Idle
    /\ \E p \in {parse_expression(last.text, rows, cols)} :
          /\ p.success
          /\ ~SelfReference(p.func, last.cell)
          /\ Refs(p.func) \cap Refs(grid[last.cell].function) # {}
          /\ Refs(p.func) # Refs(grid[last.cell].function)

\* C28: an evaluation over several erroneous inputs returns the error of the
\* first of them in evaluation order.  A binary operation returns the error
\* of its first operand before that of its second, and either before the
\* DivideByZero of a second operand 0; an aggregate returns the error of the
\* first erroneous cell of its range in row-major order.
FirstErrorWins ==
    (Evaluation /\ last.func.data.tag \in {"BinaryOp", "RangeFunction"})
    => LET Returns(error) ==
               result = "Evaluated" /\ out.error = error /\ out.value = 0
           cells == IF last.func.data.tag = "RangeFunction"
                    THEN RangeSeq(last.func.data.top_left, last.func.data.bottom_right)
                    ELSE << >>
           Erroneous == { i \in 1..Len(cells) : grid[cells[i]].error # "NoError" }
       IN  /\ (last.func.data.tag = "BinaryOp"
               /\ OperandError(last.func.data.first) # "NoError")
              => Returns(OperandError(last.func.data.first))
           /\ (last.func.data.tag = "BinaryOp"
               /\ OperandError(last.func.data.first) = "NoError"
               /\ OperandError(last.func.data.second) # "NoError")
              => Returns(OperandError(last.func.data.second))
           /\ Cardinality({ grid[cells[i]].error : i \in Erroneous }) >= 2
              => \E k \in Erroneous :
                    /\ \A i \in Erroneous : k <= i
                    /\ Returns(grid[cells[k]].error)

\* The cell c lies inside the grid.
InsideGrid(c) == c.row \in 0..(rows - 1) /\ c.col \in 0..(cols - 1)

\* The references the installed function func holds lie inside the grid, and
\* the corners of a range are ordered.
ReferencesValid(func) ==
    CASE func.data.tag = "BinaryOp" ->
             \A o \in {func.data.first, func.data.second} :
                 o.type_ = "Cell" => InsideGrid(o.cell)
      [] func.data.tag = "RangeFunction" ->
             /\ InsideGrid(func.data.top_left)
             /\ InsideGrid(func.data.bottom_right)
             /\ func.data.top_left.row <= func.data.bottom_right.row
             /\ func.data.top_left.col <= func.data.bottom_right.col
      [] func.data.tag = "SleepValue" ->
             func.data.operand.type_ = "Cell" => InsideGrid(func.data.operand.cell)
      [] func.data.tag = "Value" -> TRUE

\* C29: in every reachable grid every reference of every installed formula
\* lies inside the grid and every installed range has top_left <= bottom_right
\* in both dimensions; a range text with inverted corners or with a corner
\* outside the grid is rejected (CouldNotParse) and leaves the grid as it was.
InstalledReferencesValid ==
    /\ [](\A c \in DOMAIN grid : ReferencesValid(grid[c].function))
    /\ [][ last'.text \in RejectedRangeTexts
             => (result' = "CouldNotParse" /\ grid' = grid) ]_vars

\* A rejected range text was given for a cell that holds a range, which is
\* still installed.
RangeKeptAfterRejection ==
    /\ last.text \in RejectedRangeTexts
    /\ result = "CouldNotParse"
    /\ grid[last.cell].function.data.tag = "RangeFunction"

\* C30: in every reachable grid no cell occurs more than once in the
\* dependents list of any cell, also after a formula that references the same
\* cell twice, such as A1+A1, was installed.
DependentsHoldNoDuplicate ==
    \A c \in DOMAIN grid : \A d \in DOMAIN grid : Count(grid[c].dependents, d) <= 1

UndoStackWithinCapacity ==
    [][ /\ Len(undo_stack') <= UndoCapacity
        /\ (last'.op = "edit" /\ Len(undo_stack) >= UndoCapacity)
           => undo_stack' = Append(Tail(undo_stack),
                                   create_snapshot(grid, formula_strings, rows, cols))
      ]_vars

\* C33: whenever set_cell_value has returned, Ok or Err, the dirty_parents
\* marker of every cell is 0.
MarkersZeroAfterCall ==
    (result \in {"Ok", "CouldNotParse", "CircularDependency"})
    => \A c \in DOMAIN grid : grid[c].dirty_parents = 0

\* A call returned Ok after its propagation evaluated three cells, one of
\* them counted twice by set_dirty_parents.
ReturnedAfterPropagation ==
    /\ result = "Ok"
    /\ pc = Idle
    /\ Len(evaluated) >= 3
    /\ \E c \in DOMAIN grid : Len(grid[c].dependents) >= 2

\* C34: set_cell_value(C, f) returns CircularDependency only if f parsed and
\* references C or a cell reachable from C through dependents edges of the
\* grid the call found; a parsed formula that references no such cell is not
\* rejected as a cycle.
CycleRejectionJustified ==
    [][ \A p \in {parse_expression(last'.text, rows, cols)} :
            LET below == Closure(grid, {last'.cell}) IN
            /\ result' = "CircularDependency"
               => (p.success /\ Refs(p.func) \cap below # {})
            /\ (p.success /\ Refs(p.func) \cap below = {})
               => result' \in {"Ok", "Panic"}
      ]_vars

\* A1+A1, which references the same parent twice, was accepted for B2 while B1
\* and A2 reference A1 too.
SharedParentAccepted ==
    /\ result = "Ok"
    /\ last.cell = MkCell(1, 1)
    /\ last.text = << "A", "1", "+", "A", "1" >>
    /\ Count(grid[A1].dependents, MkCell(1, 1)) = 2
    /\ Len(grid[A1].dependents) >= 4

\* C35: Multiply on error-free operands a, b whose product lies inside the i32
\* range evaluates to (a * b, NoError), also when the product or an operand
\* is -2147483648.
MultiplyAcceptsFittingProduct ==
    (Evaluation /\ last.func.type_ = "Multiply" /\ OperandsErrorFree
        /\ ~MulOverflows(OperandValue(last.func.data.first),
                         OperandValue(last.func.data.second)))
    => /\ result = "Evaluated"
       /\ out.error = "NoError"
       /\ out.value = OperandValue(last.func.data.first)
                          * OperandValue(last.func.data.second)

\* C36: every call of set_cell_value that is under way returns: the search of
\* check_circular_dependency ends, also on a tentative graph with a cycle,
\* the loop of reset_found ends, and the loop over process_stack ends with
\* the stack empty after it evaluated exactly the cells that depend on the
\* cell, directly or not.
CallTerminates ==
    /\ (result = "Running") ~> (pc = Idle /\ result \in {"Ok", "CircularDependency"})
    /\ (pc.at = "searching") ~> (pc.at = "searched")
    /\ (pc.at = "resetting") ~> (pc.at = "checked")
    /\ (pc.at = "propagating") ~> (pc = Idle /\ result = "Ok")
    /\ [][ (pc.at = "propagating" /\ pc' = Idle)
           => /\ pc.stack = << >>
              /\ Members(evaluated') = Reachable(grid', pc.cell)
              /\ \A c \in Members(evaluated') : Count(evaluated', c) = 1 ]_vars

\* A call returned CircularDependency for a formula that does not name its
\* own cell: the search ran on a tentative graph with a cycle.
CycleFoundBySearch ==
    /\ result = "CircularDependency"
    /\ pc = Idle
    /\ \E p \in {parse_expression(last.text, rows, cols)} :
          p.success /\ last.cell \notin Refs(p.func)

\* cmd is one of the viewport commands: w, a, s, d or scroll_to with a target.
ViewportCommand(cmd) ==
    \/ cmd \in { << "w" >>, << "a" >>, << "s" >>, << "d" >> }
    \/ /\ Len(cmd) >= 10
       /\ SubSeq(cmd, 1, 10) = << "s", "c", "r", "o", "l", "l", "_", "t", "o", " " >>

\* C37: on every grid size the CLI accepts, a viewport command neither aborts
\* nor underflows and leaves top_left on a cell of the grid: row < rows and
\* col < cols, also when the grid has fewer than MAX_WIDTH rows or columns.
ViewportInsideGrid ==
    [][ ViewportCommand(Trim(last'.input))
        => /\ result' # "Panic"
           /\ top_left'.row \in 0..(rows - 1)
           /\ top_left'.col \in 0..(cols - 1)
      ]_vars

\* C38: a new edit invalidates the redo history: redo_callback right after an
\* edit command that returned Ok leaves the grid and the formula strings as
\* that edit left them, whatever was undone before the edit.
EditInvalidatesRedo ==
    [][ (last'.op = "redo" /\ last.op = "edit" /\ result = "Ok")
        => (grid' = grid /\ formula_strings' = formula_strings)
      ]_vars

\* The edges of the grid are those of its formulas: X is in the dependents
\* list of Y exactly when the formula of X references Y.
EdgesMatchFormulas(g) ==
    \A x \in DOMAIN g : \A y \in DOMAIN g :
        (x \in Members(g[y].dependents)) <=> (y \in Refs(g[x].function))

\* The value and the error of every cell are those its formula evaluates to
\* on the grid.
ValuesMatchFormulas(g) ==
    \A c \in DOMAIN g :
        \E e \in {evaluate_expression(g, g[c].function)} :
            /\ g[c].error = e.error
            /\ e.error = "NoError" => g[c].value = e.value

\* C39: a successful sort of a row range preserves the invariants of the
\* graph: if before it the dependents lists matched the formulas and every
\* value and error matched its formula, they do so after it.
SortPreservesGraph ==
    [][ (result' = "Sorted" /\ EdgesMatchFormulas(grid) /\ ValuesMatchFormulas(grid))
        => (EdgesMatchFormulas(grid') /\ ValuesMatchFormulas(grid'))
      ]_vars

====
